---- MODULE Spec2Model ----
(***************************************************************************)
(* The track matcher of playlist_tracker (src/lib/demo-playlists.ts, lines *)
(* 377-972): normalizeText, parseTrackTitle, similarity, matchTrack,       *)
(* buildSearchQuery and the session loop matchTracks.                      *)
(*                                                                         *)
(* A JavaScript string is a sequence of one-character strings.  A number   *)
(* in [0,1] (a similarity) is a pair <<n, d>> standing for n/d, and a      *)
(* score is kept as an exact fraction as well.                             *)
(***************************************************************************)
EXTENDS Integers, Sequences, FiniteSets, TLC

\* ------------------------------------------------------------------------
\* Characters and the string primitives of JavaScript the matcher uses
\* ------------------------------------------------------------------------

UpperCase ==
  << "A", "B", "C", "D", "E", "F", "G", "H", "I", "J", "K", "L", "M",
     "N", "O", "P", "Q", "R", "S", "T", "U", "V", "W", "X", "Y", "Z" >>

LowerCase ==
  << "a", "b", "c", "d", "e", "f", "g", "h", "i", "j", "k", "l", "m",
     "n", "o", "p", "q", "r", "s", "t", "u", "v", "w", "x", "y", "z" >>

Digits == { "0", "1", "2", "3", "4", "5", "6", "7", "8", "9" }

Range(f) == { f[k] : k \in DOMAIN f }

Min(S) == CHOOSE x \in S : \A y \in S : x <= y

Max(S) == CHOOSE x \in S : \A y \in S : x >= y

\* String.prototype.toLowerCase, one character
LowerOf ==
  [ c \in Range(UpperCase) |->
      LowerCase[CHOOSE k \in DOMAIN UpperCase : UpperCase[k] = c] ]

toLowerCase(s) ==
  [ k \in 1..Len(s) |-> IF s[k] \in DOMAIN LowerOf THEN LowerOf[s[k]] ELSE s[k] ]

\* the regular expression classes \s and \w
IsSpace(c) == c = " "

IsWord(c) == c \in Range(UpperCase) \cup Range(LowerCase) \cup Digits \cup {"_"}

\* String.prototype.trim
trim(s) ==
  LET ink == { k \in 1..Len(s) : ~IsSpace(s[k]) }
  IN  IF ink = {} THEN << >> ELSE SubSeq(s, Min(ink), Max(ink))

\* String.prototype.replace(/\s+/g, " ")
RECURSIVE CollapseSpaces(_)
CollapseSpaces(s) ==
  IF s = << >> THEN << >>
  ELSE IF IsSpace(Head(s))
       THEN IF Len(s) > 1 /\ IsSpace(s[2])
            THEN CollapseSpaces(Tail(s))
            ELSE << " " >> \o CollapseSpaces(Tail(s))
       ELSE << Head(s) >> \o CollapseSpaces(Tail(s))

\* the literal lit occurs in s at index k
OccursAt(s, lit, k) ==
  /\ k >= 1
  /\ k + Len(lit) - 1 <= Len(s)
  /\ SubSeq(s, k, k + Len(lit) - 1) = lit

\* String.prototype.indexOf(lit, from), 1-based, 0 when absent
IndexFrom(s, lit, from) ==
  LET at == { k \in from..(Len(s) - Len(lit) + 1) : OccursAt(s, lit, k) }
  IN  IF at = {} THEN 0 ELSE Min(at)

\* String.prototype.includes
includes(s, lit) == IndexFrom(s, lit, 1) # 0

\* String.prototype.split(sep) for a non-empty literal separator
RECURSIVE split(_, _)
split(s, sep) ==
  LET k == IndexFrom(s, sep, 1)
  IN  IF k = 0 THEN << s >>
      ELSE << SubSeq(s, 1, k - 1) >> \o split(SubSeq(s, k + Len(sep), Len(s)), sep)

\* String.prototype.split(/\s+/): a leading or trailing run of white space
\* leaves an empty first or last part
RECURSIVE splitSpaces(_)
splitSpaces(s) ==
  LET sp == { k \in 1..Len(s) : IsSpace(s[k]) }
  IN  IF sp = {} THEN << s >>
      ELSE LET k == Min(sp)
               after == { j \in k..Len(s) : ~IsSpace(s[j]) }
               rest == IF after = {} THEN << >> ELSE SubSeq(s, Min(after), Len(s))
           IN  << SubSeq(s, 1, k - 1) >> \o splitSpaces(rest)

\* Array.prototype.join(" ")
RECURSIVE join(_)
join(parts) ==
  IF parts = << >> THEN << >>
  ELSE IF Len(parts) = 1 THEN parts[1]
       ELSE parts[1] \o << " " >> \o join(Tail(parts))

\* the index at which the run of white space that ends just before q begins
SpaceRunStart(s, q) ==
  Min({ p \in 1..q : \A k \in p..(q - 1) : IsSpace(s[k]) })

\* ------------------------------------------------------------------------
\* normalizeText
\* ------------------------------------------------------------------------

KeepInNormalized(c) == IsWord(c) \/ IsSpace(c)

normalizeText(text) ==
  trim(CollapseSpaces(SelectSeq(toLowerCase(text), KeepInNormalized)))

\* ------------------------------------------------------------------------
\* parseTrackTitle
\* ------------------------------------------------------------------------

\* " - ", " – ", " — ", " | " (the en dash and the em dash are one character
\* each, written here by name)
TitleSeparators ==
  << << " ", "-", " " >>, << " ", "endash", " " >>,
     << " ", "emdash", " " >>, << " ", "|", " " >> >>

\* the return statement of lines 414-417
ParsedParts(parts) == [ artist |-> trim(parts[1]), title |-> trim(parts[2]) ]

\* the loop over the separators (lines 410-419): k is the next one to try
RECURSIVE TrySeparators(_, _)
TrySeparators(title, k) ==
  IF k > Len(TitleSeparators) THEN [ artist |-> << >>, title |-> trim(title) ]
  ELSE IF Len(split(title, TitleSeparators[k])) = 2
       THEN ParsedParts(split(title, TitleSeparators[k]))
       ELSE TrySeparators(title, k + 1)

parseTrackTitle(title) == TrySeparators(title, 1)

\* ------------------------------------------------------------------------
\* similarity
\* ------------------------------------------------------------------------

\* the number of elements of words1 that occur in words2
\* (words1.filter(w => words2.includes(w)).length)
commonWords(words1, words2) ==
  Cardinality({ k \in DOMAIN words1 : words1[k] \in Range(words2) })

\* commonWords.length / Math.max(words1.length, words2.length) (lines 441-442)
wordOverlap(words1, words2) ==
  << commonWords(words1, words2),
     IF Len(words1) >= Len(words2) THEN Len(words1) ELSE Len(words2) >>

\* a similarity that looks for one string in the other before it compares them
similarityContainedFirst(s1, s2) ==
  IF includes(s1, s2) \/ includes(s2, s1) THEN << 4, 5 >>
  ELSE IF s1 = s2 THEN << 1, 1 >>
  ELSE wordOverlap(split(s1, << " " >>), split(s2, << " " >>))

\* lines 435-442, on the two normalized strings
similarityOfNormalized(s1, s2) ==
  IF s1 = s2 THEN << 1, 1 >>
  ELSE IF includes(s1, s2) \/ includes(s2, s1) THEN << 4, 5 >>
  ELSE wordOverlap(split(s1, << " " >>), split(s2, << " " >>))

similarity(str1, str2) ==
  similarityOfNormalized(normalizeText(str1), normalizeText(str2))

\* ------------------------------------------------------------------------
\* buildSearchQuery
\* ------------------------------------------------------------------------

Official == << "o", "f", "f", "i", "c", "i", "a", "l" >>
Lyrics == << "l", "y", "r", "i", "c", "s" >>
Audio == << "a", "u", "d", "i", "o" >>
Topic == << "t", "o", "p", "i", "c" >>
Vevo == << "v", "e", "v", "o" >>

\* the first index after k that holds no white space, Len(s) + 1 when none
SkipSpaces(s, k) ==
  Min({ j \in (k + 1)..(Len(s) + 1) : j = Len(s) + 1 \/ ~IsSpace(s[j]) })

\* title.replace(/^\[.*?\]\s*/, "")
RemoveLeadingBracket(s) ==
  IF Len(s) >= 1 /\ s[1] = "[" /\ IndexFrom(s, << "]" >>, 2) # 0
  THEN SubSeq(s, SkipSpaces(s, IndexFrom(s, << "]" >>, 2)), Len(s))
  ELSE s

\* title.replace(/\s*\(.*?\)\s*$/, ""): the match starts at the first "(" (with
\* the white space before it) and the lazy .*? runs up to the ")" that ends
\* the string
RemoveTrailingParen(s) ==
  LET ink == { k \in 1..Len(s) : ~IsSpace(s[k]) }
      open == IndexFrom(s, << "(" >>, 1)
  IN  IF ink # {} /\ s[Max(ink)] = ")" /\ open # 0 /\ open < Max(ink)
      THEN SubSeq(s, 1, SpaceRunStart(s, open) - 1)
      ELSE s

\* title.replace(/\s*-\s*Official.*$/i, "")
RemoveDashOfficial(s) ==
  LET dashes == { h \in 1..Len(s) :
                    s[h] = "-" /\ OccursAt(toLowerCase(s), Official, SkipSpaces(s, h)) }
  IN  IF dashes = {} THEN s
      ELSE SubSeq(s, 1, SpaceRunStart(s, Min(dashes)) - 1)

\* title.replace(/\s*\(.*?WORD.*?\)/i, "") for WORD one of Official, Lyrics,
\* Audio: from the first "(" to the first ")" that follows the first WORD
RemoveParenWith(s, word) ==
  LET open == IndexFrom(s, << "(" >>, 1)
      at == IF open = 0 THEN 0 ELSE IndexFrom(toLowerCase(s), word, open + 1)
      close == IF at = 0 THEN 0 ELSE IndexFrom(s, << ")" >>, at + Len(word))
  IN  IF close = 0 THEN s
      ELSE SubSeq(s, 1, SpaceRunStart(s, open) - 1) \o SubSeq(s, close + 1, Len(s))

\* title.replace(/\s*\[.*?\]/g, "")
RECURSIVE RemoveBrackets(_)
RemoveBrackets(s) ==
  LET open == IndexFrom(s, << "[" >>, 1)
      close == IF open = 0 THEN 0 ELSE IndexFrom(s, << "]" >>, open + 1)
  IN  IF close = 0 THEN s
      ELSE SubSeq(s, 1, SpaceRunStart(s, open) - 1)
             \o RemoveBrackets(SubSeq(s, close + 1, Len(s)))

\* artist.replace(/\s*-\s*Topic$/i, "")
RemoveTopic(s) ==
  LET at == Len(s) - Len(Topic) + 1
      before == { h \in 1..(at - 1) : ~IsSpace(s[h]) }
  IN  IF OccursAt(toLowerCase(s), Topic, at) /\ before # {} /\ s[Max(before)] = "-"
      THEN SubSeq(s, 1, SpaceRunStart(s, Max(before)) - 1)
      ELSE s

\* artist.replace(/\s*VEVO$/i, "")
RemoveVevo(s) ==
  LET at == Len(s) - Len(Vevo) + 1
  IN  IF OccursAt(toLowerCase(s), Vevo, at)
      THEN SubSeq(s, 1, SpaceRunStart(s, at) - 1)
      ELSE s

\* artist.replace(/\s*Official.*$/i, "")
RemoveOfficial(s) ==
  LET at == IndexFrom(toLowerCase(s), Official, 1)
  IN  IF at = 0 THEN s ELSE SubSeq(s, 1, SpaceRunStart(s, at) - 1)

cleanTitle(title) ==
  trim(RemoveBrackets(RemoveParenWith(RemoveParenWith(RemoveParenWith(
         RemoveDashOfficial(RemoveTrailingParen(RemoveLeadingBracket(trim(title)))),
         Official), Lyrics), Audio)))

cleanArtist(artist) ==
  trim(RemoveOfficial(RemoveVevo(RemoveTopic(trim(artist)))))

buildSearchQuery(track, platform) ==
  LET title == cleanTitle(track.title)
      artist == cleanArtist(track.artist)
  IN  IF platform \in { "spotify", "youtube" } /\ artist # << >> /\ title # << >>
      THEN artist \o << " " >> \o title
      ELSE title

\* ------------------------------------------------------------------------
\* Track, MatchResult
\* ------------------------------------------------------------------------

\* A Track is [id, title, artist, duration, platform]; duration 0 stands for
\* an absent duration (the code tests it for truthiness only).  album,
\* thumbnail and originalId are never read by the matcher.
\* An optional field (Track | null, a field that may be undefined) is the
\* empty sequence when absent and a one-element sequence when present.
Absent == << >>

Present(x) == << x >>

IsPresent(o) == o # << >>

\* Array.prototype.slice(0, n)
Take(list, n) == SubSeq(list, 1, IF Len(list) < n THEN Len(list) ELSE n)

\* { sourceTrack, matchedTrack: null, confidence: "none" }
NoMatch(sourceTrack) ==
  [ sourceTrack |-> sourceTrack, matchedTrack |-> Absent, confidence |-> "none",
    matchReason |-> Absent, suggestions |-> Absent, allCandidates |-> Absent ]

\* ------------------------------------------------------------------------
\* matchTrack
\* ------------------------------------------------------------------------

\* a fraction <<n, d>> compared with the decimal h / 100
Above(f, h) == f[1] * 100 > h * f[2]

Below(f, h) == f[1] * 100 < h * f[2]

AtLeast(f, h) == f[1] * 100 >= h * f[2]

Greater(f, g) == f[1] * g[2] > g[1] * f[2]

\* the artist and title matchTrack compares with (lines 462-469)
SourceFields(sourceTrack) ==
  IF sourceTrack.platform = "youtube" /\ sourceTrack.artist = << >>
  THEN parseTrackTitle(sourceTrack.title)
  ELSE [ artist |-> sourceTrack.artist, title |-> sourceTrack.title ]

\* lines 480-482
artistScoreOf(sourceArtist, candidate) ==
  IF sourceArtist # << >> /\ candidate.artist # << >>
  THEN similarity(sourceArtist, candidate.artist)
  ELSE << 0, 1 >>

\* the bonus for a duration match, in hundredths (lines 492-500)
DurationBonusOf(durationDiff) ==
  IF durationDiff <= 10 THEN 15
  ELSE IF durationDiff <= 30 THEN 5 ELSE 0

Abs(x) == IF x < 0 THEN 0 - x ELSE x

DurationBonus(sourceTrack, candidate) ==
  IF sourceTrack.duration # 0 /\ candidate.duration # 0
  THEN DurationBonusOf(Abs(sourceTrack.duration - candidate.duration))
  ELSE 0

\* a bonus for any title above 0.75
TitleBonusFromLowerTitle(titleScore, artistScore) ==
  IF Above(titleScore, 75) /\ Below(artistScore, 50) THEN 10 ELSE 0

\* the bonus for a strong title match, in hundredths (lines 503-505)
TitleBonus(titleScore, artistScore) ==
  IF Above(titleScore, 85) /\ Below(artistScore, 50) THEN 10 ELSE 0

\* let score = titleScore * titleWeight + artistScore * artistWeight plus
\* the bonuses, as a fraction (lines 485-505); the weights are in hundredths
Weighted(titleScore, artistScore, titleWeight, artistWeight, bonus) ==
  << titleScore[1] * titleWeight * artistScore[2]
       + artistScore[1] * artistWeight * titleScore[2]
       + bonus * titleScore[2] * artistScore[2],
     100 * titleScore[2] * artistScore[2] >>

ScoreFrom(titleScore, artistScore, sourceArtist, durationBonus) ==
  Weighted(titleScore, artistScore,
           IF sourceArtist # << >> THEN 60 ELSE 90,
           IF sourceArtist # << >> THEN 40 ELSE 10,
           durationBonus + TitleBonus(titleScore, artistScore))

\* lines 511-519
ReasonOf(titleScore, artistScore) ==
  IF Above(titleScore, 90) /\ Above(artistScore, 90) THEN "Exact match"
  ELSE IF Above(titleScore, 80) /\ Above(artistScore, 70) THEN "High similarity"
  ELSE IF Above(titleScore, 60) THEN "Title match"
  ELSE "Partial match"

\* one candidate with its scores: [candidate, score, reason]
Scored(candidate, titleScore, artistScore, sourceArtist, durationBonus) ==
  [ candidate |-> candidate,
    score |-> ScoreFrom(titleScore, artistScore, sourceArtist, durationBonus),
    reason |-> ReasonOf(titleScore, artistScore) ]

ScoredCandidate(sourceTrack, source, candidate) ==
  Scored(candidate,
         similarity(source.title, candidate.title),
         artistScoreOf(source.artist, candidate),
         source.artist,
         DurationBonus(sourceTrack, candidate))

\* a loop in which a later candidate with the same score replaces the best
BetterOrSame(best, scored) ==
  IF ~Greater(best.bestScore, scored.score)
  THEN [ bestMatch |-> Present(scored.candidate),
         bestScore |-> scored.score,
         matchReason |-> scored.reason ]
  ELSE best

\* if (score > bestScore) { ... } (lines 507-520)
Better(best, scored) ==
  IF Greater(scored.score, best.bestScore)
  THEN [ bestMatch |-> Present(scored.candidate),
         bestScore |-> scored.score,
         matchReason |-> scored.reason ]
  ELSE best

\* the selection loop (lines 471-521): best is [bestMatch, bestScore, matchReason]
RECURSIVE SelectBest(_, _, _, _)
SelectBest(sourceTrack, source, candidates, best) ==
  IF candidates = << >> THEN best
  ELSE SelectBest(sourceTrack, source, Tail(candidates),
                  Better(best, ScoredCandidate(sourceTrack, source, Head(candidates))))

\* thresholds that the score has to exceed
ConfidenceOfStrict(bestScore) ==
  IF Above(bestScore, 70) THEN "high"
  ELSE IF Above(bestScore, 50) THEN "medium"
  ELSE IF Above(bestScore, 30) THEN "low"
  ELSE "none"

\* lines 523-534
ConfidenceOf(bestScore) ==
  IF AtLeast(bestScore, 70) THEN "high"
  ELSE IF AtLeast(bestScore, 50) THEN "medium"
  ELSE IF AtLeast(bestScore, 30) THEN "low"
  ELSE "none"

\* the return statement (lines 536-542)
Matched(sourceTrack, candidates, bestMatch, confidence, matchReason) ==
  [ sourceTrack |-> sourceTrack,
    matchedTrack |-> bestMatch,
    confidence |-> confidence,
    matchReason |-> IF IsPresent(bestMatch) THEN Present(matchReason) ELSE Absent,
    suggestions |-> Absent,
    allCandidates |-> Present(candidates) ]

\* a matchTrack that keeps the best candidate whatever the tier
ClassifiedKeepingBest(sourceTrack, candidates, best, confidence) ==
  Matched(sourceTrack, candidates, best.bestMatch, confidence, best.matchReason)

\* lines 523-542: the tier of the best score; below low the match is dropped
Classified(sourceTrack, candidates, best, confidence) ==
  Matched(sourceTrack, candidates,
          IF confidence = "none" THEN Absent ELSE best.bestMatch,
          confidence, best.matchReason)

Classify(sourceTrack, candidates, best) ==
  Classified(sourceTrack, candidates, best, ConfidenceOf(best.bestScore))

matchTrack(sourceTrack, candidates) ==
  IF candidates = << >> THEN NoMatch(sourceTrack)
  ELSE Classify(sourceTrack, candidates,
                SelectBest(sourceTrack, SourceFields(sourceTrack), candidates,
                           [ bestMatch |-> Absent, bestScore |-> << 0, 1 >>,
                             matchReason |-> "" ]))

\* ------------------------------------------------------------------------
\* The inputs of a session: a playlist and the answers of the platform
\* ------------------------------------------------------------------------

\* a usable artist, a query that differs from the title, and a keyword
\* query ("Song") that differs from the title
Normal ==
  [ id |-> << "s", "1" >>, title |-> << "M", "y", " ", "S", "o", "n", "g" >>,
    artist |-> << "B", "a", "n", "d" >>,
    duration |-> 200, platform |-> "youtube" ]

\* the title is one parenthesised group: buildSearchQuery returns ""
Unsearchable ==
  [ id |-> << "s", "2" >>, title |-> << "(", "L", "i", "v", "e", ")" >>,
    artist |-> << "B", "a", "n", "d" >>,
    duration |-> 180, platform |-> "youtube" ]

\* a video title with no artist field: the query is the title itself
NoArtist ==
  [ id |-> << "s", "3" >>, title |-> << "B", "a", "n", "d", " ", "-", " ", "S", "o", "n", "g" >>,
    artist |-> << >>,
    duration |-> 0, platform |-> "youtube" ]

\* the artist cleans to "", so the query is the title, yet the artist is searched
BrandedArtist ==
  [ id |-> << "s", "4" >>, title |-> << "S", "o", "n", "g" >>,
    artist |-> << "V", "E", "V", "O" >>,
    duration |-> 0, platform |-> "youtube" ]

\* the placeholder artist
UnknownArtist ==
  [ id |-> << "s", "5" >>, title |-> << "M", "y", " ", "S", "o", "n", "g" >>,
    artist |-> << "U", "n", "k", "n", "o", "w", "n", " ", "A", "r", "t", "i", "s", "t" >>,
    duration |-> 200, platform |-> "youtube" ]

\* the keyword query equals the title
OneWord ==
  [ id |-> << "s", "6" >>, title |-> << "S", "o", "n", "g" >>,
    artist |-> << "B", "a", "n", "d" >>,
    duration |-> 200, platform |-> "youtube" ]

\* the placeholder artist and no keyword query
UnknownOneWord ==
  [ id |-> << "s", "7" >>, title |-> << "S", "o", "n", "g" >>,
    artist |-> << "U", "n", "k", "n", "o", "w", "n", " ", "A", "r", "t", "i", "s", "t" >>,
    duration |-> 0, platform |-> "youtube" ]

SourceCatalog ==
  << Normal, Unsearchable, NoArtist, BrandedArtist, UnknownArtist, OneWord, UnknownOneWord >>

\* the song itself
Exact ==
  [ id |-> << "d", "1" >>, title |-> << "M", "y", " ", "S", "o", "n", "g" >>,
    artist |-> << "B", "a", "n", "d" >>,
    duration |-> 200, platform |-> "spotify" ]

\* shares no word with any source track; only its duration is close
Unrelated ==
  [ id |-> << "d", "2" >>, title |-> << "O", "t", "h", "e", "r" >>,
    artist |-> << "E", "l", "s", "e" >>,
    duration |-> 190, platform |-> "spotify" ]

\* a longer title by another artist
LiveCut ==
  [ id |-> << "d", "3" >>, title |-> << "M", "y", " ", "S", "o", "n", "g", " ", "L", "i", "v", "e" >>,
    artist |-> << "E", "l", "s", "e" >>,
    duration |-> 205, platform |-> "spotify" ]

\* the result lists the platform may answer a search with
Responses ==
  { << >>,
    << Exact >>,
    << Unrelated >>,
    << Unrelated, Exact >>,
    << LiveCut, Exact >>,
    << Unrelated, Unrelated >>,
    << LiveCut >>,
    << Exact, Exact, Unrelated, LiveCut, Unrelated, LiveCut >> }

\* the playlists: up to MaxTracks consecutive tracks of the catalogue, taken
\* cyclically from any position
MaxTracks == 2

Playlists ==
  { [ k \in 1..n |-> SourceCatalog[((first + k - 2) % Len(SourceCatalog)) + 1] ] :
      first \in DOMAIN SourceCatalog, n \in 0..MaxTracks }

\* the platforms a session matches against: one with a search API and one
\* of those searchTracks answers with [] (its default branch)
Destinations == { "spotify", "apple" }

\* searchTracks (lines 548-631): what a call can do.  A platform with a
\* search API throws (the fetch rejects, the response is not ok, the API key
\* is missing) or returns a list; any other platform returns [].
SearchOutcomes(platform) ==
  IF platform \in { "spotify", "youtube" }
  THEN { [ threw |-> TRUE, tracks |-> << >> ] }
         \cup { [ threw |-> FALSE, tracks |-> r ] : r \in Responses }
  ELSE { [ threw |-> FALSE, tracks |-> << >> ] }

\* ------------------------------------------------------------------------
\* matchTracks: the helpers of the loop body
\* ------------------------------------------------------------------------

UnknownArtistName ==
  << "U", "n", "k", "n", "o", "w", "n", " ", "A", "r", "t", "i", "s", "t" >>

\* sourceTrack.artist && sourceTrack.artist.trim() &&
\* sourceTrack.artist !== "Unknown Artist" (lines 728, 821, 889)
artistUsable(sourceTrack) ==
  /\ sourceTrack.artist # << >>
  /\ trim(sourceTrack.artist) # << >>
  /\ sourceTrack.artist # UnknownArtistName

\* const simpleQuery = sourceTrack.title.trim() (line 714)
simpleQueryOf(sourceTrack) == trim(sourceTrack.title)

LongWord(w) == Len(w) > 3

\* simpleQuery.split(/\s+/).filter(w => w.length > 3).slice(0, 3).join(" ")
\* (lines 768, 794)
wordsOf(simpleQuery) ==
  join(Take(SelectSeq(splitSpaces(simpleQuery), LongWord), 3))

\* sourceTrack.title.split(/\s+/).slice(0, 5).join(" ") (lines 861, 873)
titleOnlyQueryOf(sourceTrack) == join(Take(splitSpaces(sourceTrack.title), 5))

\* the title similarity the artist stage filters on (lines 734-739)
titleSimOf(sourceTrack, candidate) ==
  similarity(normalizeText(sourceTrack.title), normalizeText(candidate.title))

\* Array.prototype.sort((a, b) => b.titleSim - a.titleSim), which is stable:
\* head goes behind the tracks of the sorted rest that are more similar
InsertBehind(head, rest, ahead) ==
  SubSeq(rest, 1, ahead) \o << head >> \o SubSeq(rest, ahead + 1, Len(rest))

MoreSimilar(sourceTrack, rest, mine) ==
  Cardinality({ k \in DOMAIN rest : Greater(titleSimOf(sourceTrack, rest[k]), mine) })

InsertSorted(sourceTrack, head, rest) ==
  InsertBehind(head, rest, MoreSimilar(sourceTrack, rest, titleSimOf(sourceTrack, head)))

RECURSIVE SortByTitleSim(_, _)
SortByTitleSim(sourceTrack, list) ==
  IF list = << >> THEN << >>
  ELSE InsertSorted(sourceTrack, Head(list), SortByTitleSim(sourceTrack, Tail(list)))

\* filteredCandidates (lines 735-743, 828-836, 896-904)
\* an artist stage that sorts the artist results without filtering them
unfilteredCandidatesOf(sourceTrack, artistCandidates) ==
  SortByTitleSim(sourceTrack, artistCandidates)

filteredCandidatesOf(sourceTrack, artistCandidates) ==
  LET Similar(candidate) == Above(titleSimOf(sourceTrack, candidate), 30)
  IN  SortByTitleSim(sourceTrack, SelectSeq(artistCandidates, Similar))

\* the filter of lines 921-927: the first track of every `${id}-${platform}`
RECURSIVE Dedupe(_, _)
Dedupe(list, seen) ==
  IF list = << >> THEN << >>
  ELSE LET key == << Head(list).id, Head(list).platform >>
       IN  IF key \in seen THEN Dedupe(Tail(list), seen)
           ELSE << Head(list) >> \o Dedupe(Tail(list), seen \cup { key })

\* { ...match, suggestions: list.slice(0, 5) }
WithSuggestions(match, list) ==
  [ match EXCEPT !.suggestions = Present(Take(list, 5)) ]

\* lines 745-765, 838-858: the artist search found artistCandidates, of
\* which filteredCandidates resemble the title
ArtistStaged(sourceTrack, artistCandidates, filteredCandidates) ==
  IF filteredCandidates # << >>
  THEN WithSuggestions(matchTrack(sourceTrack, filteredCandidates), artistCandidates)
  ELSE WithSuggestions(NoMatch(sourceTrack), artistCandidates)

\* the result of the artist stage once the simplified query (or the query
\* itself) found nothing and the artist search found something
\* (lines 732-765, 825-858)
ArtistStageResult(sourceTrack, artistCandidates) ==
  ArtistStaged(sourceTrack, artistCandidates,
               filteredCandidatesOf(sourceTrack, artistCandidates))

\* artistMatch.matchReason || "Matched by artist + title comparison" (line 913)
ReasonOr(matchReason) ==
  IF IsPresent(matchReason) /\ matchReason # Present("")
  THEN matchReason
  ELSE Present("Matched by artist + title comparison")

\* lines 909-915: the artist match replaces the primary one
Superseded(primaryMatch, artistMatch, found) ==
  IF found
  THEN [ primaryMatch EXCEPT !.matchedTrack = artistMatch.matchedTrack,
                             !.confidence = artistMatch.confidence,
                             !.matchReason = ReasonOr(artistMatch.matchReason) ]
  ELSE primaryMatch

\* lines 918-927: match.suggestions and the artist candidates, without
\* duplicates, at most 5
Merged(match, artistCandidates) ==
  [ match EXCEPT !.suggestions =
      Present(Take(Dedupe((IF IsPresent(match.suggestions)
                           THEN match.suggestions[1] ELSE << >>)
                            \o Take(artistCandidates, 5), {}), 5)) ]

\* lines 906-927 once it is known whether the artist stage found a match:
\* [match] is the MatchResult, [counted] whether line 914 ran
ArtistFallbackResult(primaryMatch, artistCandidates, artistMatch, found) ==
  [ match |-> Merged(Superseded(primaryMatch, artistMatch, found), artistCandidates),
    counted |-> found ]

\* lines 906-909: artistMatch is consulted only if filteredCandidates is not
\* empty
ArtistFallbackWith(primaryMatch, artistCandidates, filteredCandidates, artistMatch) ==
  ArtistFallbackResult(primaryMatch, artistCandidates, artistMatch,
                       filteredCandidates # << >> /\ IsPresent(artistMatch.matchedTrack))

ArtistFallbackOn(sourceTrack, primaryMatch, artistCandidates, filteredCandidates) ==
  ArtistFallbackWith(primaryMatch, artistCandidates, filteredCandidates,
                     matchTrack(sourceTrack, filteredCandidates))

\* lines 893-928: what the artist search does to the primary match
AfterArtistFallback(sourceTrack, primaryMatch, artistCandidates) ==
  IF artistCandidates = << >> THEN [ match |-> primaryMatch, counted |-> FALSE ]
  ELSE ArtistFallbackOn(sourceTrack, primaryMatch, artistCandidates,
                        filteredCandidatesOf(sourceTrack, artistCandidates))

\* lines 931-934
WithPrimarySuggestions(match, primaryCandidates) ==
  IF ~IsPresent(match.matchedTrack) /\ primaryCandidates # << >>
  THEN WithSuggestions(match, primaryCandidates)
  ELSE match

\* ------------------------------------------------------------------------
\* matchTracks: the session
\* ------------------------------------------------------------------------

VARIABLES
  sourceTracks,         \* the argument sourceTracks
  destinationPlatform,  \* the argument destinationPlatform
  onProgress,           \* the argument onProgress: a callback that "returns"
                        \* (the setProgress closure of handleTransfer) or
                        \* one that "throws"
  i,                    \* the loop variable (0-based, as in the code)
  pc,                   \* where the session stands: "loop", a search it
                        \* awaits, "pause" (the 100 ms timer) or "done"
  results,              \* const results: MatchResult[]
  matchedCount,         \* let matchedCount
  errorCount,           \* let errorCount
  candidates,           \* const candidates of the current track (line 710)
  match,                \* const match of the current track (line 886)
  calls,                \* the searchTracks calls of the current track, each
                        \* [stage, query, done, threw, tracks]
  progress,             \* the arguments of every onProgress call so far
  pauses                \* the values of i at which the timer was awaited

\* The previews of the page (src/app/components/ThemeToggle.tsx): the
\* AudioPreview components, their audio elements and the GlobalAudioManager
\* they share.  A session of matchTracks leaves them alone.

\* the AudioPreview components on the page
MaxPreviews == 2

\* the calls of handlePlay that can be waiting at one time
MaxHandlers == 2

Previews == 1 .. MaxPreviews

VARIABLES
  currentAudio,         \* GlobalAudioManager.currentAudio: the preview whose
                        \* audio element it is, or null
  currentStopCallback,  \* GlobalAudioManager.currentStopCallback: the preview
                        \* whose setIsPlaying(false) it is, or null
  paused,               \* the paused attribute of each preview's audio element
  isPlaying,            \* the state isPlaying of each preview
  audioRef,             \* whether audioRef.current of each preview is an
                        \* element (it is null after the unmount)
  handlers              \* per preview, the calls of handlePlay that wait:
                        \* for getPreviewUrl (url), for the promise of play()
                        \* (play), or for the catch block after the promise
                        \* was rejected (rejected)

audio == << currentAudio, currentStopCallback, paused, isPlaying, audioRef, handlers >>

\* no preview has been clicked
AudioAtRest ==
  /\ currentAudio = Absent
  /\ currentStopCallback = Absent
  /\ paused = [ c \in Previews |-> TRUE ]
  /\ isPlaying = [ c \in Previews |-> FALSE ]
  /\ audioRef = [ c \in Previews |-> TRUE ]
  /\ handlers = [ c \in Previews |-> [ url |-> 0, play |-> 0, rejected |-> 0 ] ]

session ==
  << sourceTracks, destinationPlatform, onProgress, i, pc, results, matchedCount,
     errorCount, candidates, match, calls, progress, pauses >>

\* no session of matchTracks runs
NoSession ==
  /\ sourceTracks = << >>
  /\ destinationPlatform = "spotify"
  /\ onProgress = "returns"
  /\ i = 0
  /\ pc = "loop"
  /\ results = << >>
  /\ matchedCount = 0
  /\ errorCount = 0
  /\ candidates = << >>
  /\ match = Absent
  /\ calls = << >>
  /\ progress = << >>
  /\ pauses = << >>

\* The functions on text (normalizeText, parseTrackTitle, similarity), called
\* on their own

VARIABLES
  fn,                   \* the function called
  args,                 \* its arguments
  ret                   \* what it returned, once it has

pure == << fn, args, ret >>

\* no function is called on its own
NoPureCall ==
  /\ fn = ""
  /\ args = << >>
  /\ ret = Absent

\* createPlaylist and the platforms' functions it calls (demo-playlists.ts,
\* lines 112-374)

VARIABLES
  target,               \* the argument platform of createPlaylist
  token,                \* what getToken(platform) returns: a token or null
  matchedTracks,        \* the argument matchedTracks: MatchResult[]
  tracksToAdd,          \* the tracks handed to the function of the platform,
                        \* once they are
  offset,               \* the loop variable i of createSpotifyPlaylist and of
                        \* createYouTubePlaylist
  requests,             \* the requests sent to the platform so far
  creation              \* where the call stands: the request it awaits,
                        \* "returned" or "thrown"

creating == << target, token, matchedTracks, tracksToAdd, offset, requests, creation >>

\* no playlist is being created
NotCreating ==
  /\ target = "spotify"
  /\ token = Absent
  /\ matchedTracks = << >>
  /\ tracksToAdd = Absent
  /\ offset = 0
  /\ requests = << >>
  /\ creation = ""

\* the stored tokens (token-storage.ts)

VARIABLES
  localStorage,         \* the entries of window.localStorage: key -> string,
                        \* or null
  now,                  \* Date.now()
  called                \* the last call of the module and what it returned

storage == << localStorage, now, called >>

\* the token storage is not in use
NoStorage ==
  /\ localStorage = << >>
  /\ now = 0
  /\ called = Absent

\* the transfer page (page-content.tsx): the state the confirmation reads

VARIABLES
  matchResults,             \* useState<MatchResult[] | null>(null), line 61
  userSelections,           \* useState<Map<number, Track>>, line 63
  showConfirmationModal,    \* line 67
  pendingPlaylistCreation,  \* {matches, playlist} | null, line 70
  isProcessing,
  error,
  transfer,                 \* the last call of handleTransfer: the
                            \* matchResults of the render it was made in, its
                            \* playlist, its matches and how far it is
  runs                      \* how many transfers were started

transferPage == << matchResults, userSelections, showConfirmationModal,
                   pendingPlaylistCreation, isProcessing, error, transfer, runs >>

\* the page as it is first rendered
PageAtRest ==
  /\ matchResults = Absent
  /\ userSelections = << >>
  /\ showConfirmationModal = FALSE
  /\ pendingPlaylistCreation = Absent
  /\ isProcessing = FALSE
  /\ error = ""
  /\ transfer = Absent
  /\ runs = 0

\* what a session, and what the previews, leave alone; and so on for the
\* other parts
besidesSession == << audio, pure, creating, storage, transferPage >>

besidesAudio == << session, pure, creating, storage, transferPage >>

besidesPure == << session, audio, creating, storage, transferPage >>

besidesCreating == << session, audio, pure, storage, transferPage >>

besidesStorage == << session, audio, pure, creating, transferPage >>

besidesTransferPage == << session, audio, pure, creating, storage >>

NothingBesidesSession == AudioAtRest /\ NoPureCall /\ NotCreating /\ NoStorage /\ PageAtRest

NothingBesidesAudio == NoSession /\ NoPureCall /\ NotCreating /\ NoStorage /\ PageAtRest

NothingBesidesPure == NoSession /\ AudioAtRest /\ NotCreating /\ NoStorage /\ PageAtRest

NothingBesidesCreating == NoSession /\ AudioAtRest /\ NoPureCall /\ NoStorage /\ PageAtRest

NothingBesidesStorage == NoSession /\ AudioAtRest /\ NoPureCall /\ NotCreating /\ PageAtRest

NothingBesidesTransferPage == NoSession /\ AudioAtRest /\ NoPureCall /\ NotCreating /\ NoStorage

vars == << session, audio, pure, creating, storage, transferPage >>

\* the stages at which the session awaits searchTracks
SearchStages ==
  { "primary", "simple", "artist", "words", "artistOnly", "titleOnly",
    "artistFallback" }

sourceTrack == sourceTracks[i + 1]

\* buildSearchQuery(track, destinationPlatform) for the tracks a playlist is
\* made of
queries ==
  [ track \in Range(SourceCatalog) |->
      [ platform \in Destinations |-> buildSearchQuery(track, platform) ] ]

query == queries[sourceTrack][destinationPlatform]

\* the call the session waits for comes back with outcome
Answered(outcome) ==
  [ calls EXCEPT ![Len(calls)] =
      [ @ EXCEPT !.done = TRUE, !.threw = outcome.threw, !.tracks = outcome.tracks ] ]

\* a search issued without waiting for the one before it
AwaitWithoutAnswer(outcome, stage, q) ==
  /\ calls' = Append(calls, [ stage |-> stage, query |-> q, done |-> FALSE,
                              threw |-> FALSE, tracks |-> << >> ])
  /\ pc' = stage
  /\ UNCHANGED << i, results, matchedCount, errorCount, progress, pauses >>

\* await searchTracks(destinationPlatform, q, accessToken) once the awaited
\* call has come back with outcome: the next call is made and the session
\* waits at stage
Await(outcome, stage, q) ==
  /\ calls' = Append(Answered(outcome), [ stage |-> stage, query |-> q, done |-> FALSE,
                                           threw |-> FALSE, tracks |-> << >> ])
  /\ pc' = stage
  /\ UNCHANGED << i, results, matchedCount, errorCount, progress, pauses >>

\* the for statement's i++ and whatever leaves the body without awaiting
NextTrack ==
  /\ i' = i + 1
  /\ pc' = "loop"

\* a catch block that records nothing for the track
CatchWithoutPush(pushed) ==
  /\ errorCount' = errorCount + 1
  /\ results' = pushed
  /\ NextTrack
  /\ UNCHANGED pauses

\* a catch block that does not count the error
CatchWithoutCounting(pushed) ==
  /\ errorCount' = errorCount
  /\ results' = Append(pushed, NoMatch(sourceTrack))
  /\ NextTrack
  /\ UNCHANGED pauses

\* a catch block that records the track as a search without candidates is
\* recorded, with an empty list of suggestions
CatchAsEmptySearch(pushed) ==
  /\ errorCount' = errorCount + 1
  /\ results' = Append(pushed, WithSuggestions(NoMatch(sourceTrack), << >>))
  /\ NextTrack
  /\ UNCHANGED pauses

\* the catch block (lines 953-967)
Catch(pushed) ==
  /\ errorCount' = errorCount + 1
  /\ results' = Append(pushed, NoMatch(sourceTrack))
  /\ NextTrack
  /\ UNCHANGED pauses

\* the end of the try block (results.push, lines 943-952): the result is
\* pushed, counted matched times, onProgress is called and, unless this was
\* the last track, the timer is awaited; a throwing onProgress lands in the
\* catch block
Record(result, matched) ==
  /\ matchedCount' = matchedCount + matched
  /\ progress' = Append(progress, [ current |-> i + 1,
                                     total |-> Len(sourceTracks),
                                     matched |-> matchedCount + matched ])
  /\ IF onProgress = "throws"
     THEN Catch(Append(results, result))
     ELSE /\ results' = Append(results, result)
          /\ errorCount' = errorCount
          /\ IF i < Len(sourceTracks) - 1
             THEN /\ pc' = "pause"
                  /\ i' = i
                  /\ pauses' = Append(pauses, i)
             ELSE /\ NextTrack
                  /\ UNCHANGED pauses

\* 1 if the result has a matchedTrack (if (match.matchedTrack) matchedCount++)
Counted(result) == IF IsPresent(result.matchedTrack) THEN 1 ELSE 0

Init ==
  /\ sourceTracks \in Playlists
  /\ destinationPlatform \in Destinations
  /\ onProgress = "returns"
  /\ i = 0
  /\ pc = "loop"
  /\ results = << >>
  /\ matchedCount = 0
  /\ errorCount = 0
  /\ candidates = << >>
  /\ match = Absent
  /\ calls = << >>
  /\ progress = << >>
  /\ pauses = << >>
  /\ NothingBesidesSession

\* the loop ends: matchTracks returns results (lines 970-971)
Return ==
  /\ pc = "loop"
  /\ i >= Len(sourceTracks)
  /\ pc' = "done"
  /\ UNCHANGED << sourceTracks, destinationPlatform, onProgress, i, results,
                  matchedCount, errorCount, candidates, match, calls, progress, pauses >>
  /\ UNCHANGED besidesSession

\* the query is empty: the track is recorded unmatched and the loop
\* continues (lines 698-706)
SkipTrack ==
  /\ pc = "loop"
  /\ i < Len(sourceTracks)
  /\ query = << >>
  /\ results' = Append(results, NoMatch(sourceTrack))
  /\ calls' = << >>
  /\ NextTrack
  /\ UNCHANGED << sourceTracks, destinationPlatform, onProgress, matchedCount,
                  errorCount, candidates, match, progress, pauses >>
  /\ UNCHANGED besidesSession

\* a loop that searches without looking at the query
StartTrackWithoutQueryCheck ==
  /\ pc = "loop"
  /\ i < Len(sourceTracks)
  /\ calls' = << [ stage |-> "primary", query |-> query, done |-> FALSE,
                   threw |-> FALSE, tracks |-> << >> ] >>
  /\ pc' = "primary"
  /\ candidates' = << >>
  /\ match' = Absent
  /\ UNCHANGED << sourceTracks, destinationPlatform, onProgress, i, results,
                  matchedCount, errorCount, progress, pauses >>
  /\ UNCHANGED besidesSession

\* the primary search is issued (line 710)
StartTrack ==
  /\ pc = "loop"
  /\ i < Len(sourceTracks)
  /\ query # << >>
  /\ calls' = << [ stage |-> "primary", query |-> query, done |-> FALSE,
                   threw |-> FALSE, tracks |-> << >> ] >>
  /\ pc' = "primary"
  /\ candidates' = << >>
  /\ match' = Absent
  /\ UNCHANGED << sourceTracks, destinationPlatform, onProgress, i, results,
                  matchedCount, errorCount, progress, pauses >>
  /\ UNCHANGED besidesSession

\* any awaited search throws: the catch block records the track
SearchThrows ==
  /\ pc \in SearchStages
  /\ \E outcome \in SearchOutcomes(destinationPlatform) :
       /\ outcome.threw
       /\ calls' = Answered(outcome)
  /\ Catch(results)
  /\ UNCHANGED << sourceTracks, destinationPlatform, onProgress, matchedCount,
                  candidates, match, progress >>
  /\ UNCHANGED besidesSession

\* the awaited call has come back with outcome and the track is recorded
Finish(outcome, result, matched) ==
  /\ calls' = Answered(outcome)
  /\ Record(result, matched)

\* results.push(result); if (result.matchedTrack) matchedCount++
FinishCounted(outcome, result) == Finish(outcome, result, Counted(result))

\* the keyword stage (lines 767-790 and 793-816): search the long words of
\* the title, or record the track with no suggestions
KeywordSearch(outcome, simpleQuery, words) ==
  IF words # << >> /\ words # simpleQuery
  THEN Await(outcome, "words", words)
  ELSE Finish(outcome, WithSuggestions(NoMatch(sourceTrack), << >>), 0)

KeywordStageOf(outcome, simpleQuery) ==
  KeywordSearch(outcome, simpleQuery, wordsOf(simpleQuery))

KeywordStage(outcome) == KeywordStageOf(outcome, simpleQueryOf(sourceTrack))

\* the non-throwing outcomes of the awaited search
Returned == { o \in SearchOutcomes(destinationPlatform) : ~o.threw }

\* the primary search found nothing (lines 712-716, 819-823, 871-874)
PrimaryEmpty(outcome, simpleQuery) ==
  /\ match' = Absent
  /\ IF simpleQuery # << >> /\ simpleQuery # query
     THEN Await(outcome, "simple", simpleQuery)
     ELSE IF artistUsable(sourceTrack)
          THEN Await(outcome, "artistOnly", trim(sourceTrack.artist))
          ELSE Await(outcome, "titleOnly", titleOnlyQueryOf(sourceTrack))

\* a primary stage that tries the artist whether or not it found a match
PrimaryMatchedThenArtist(outcome, primaryMatch) ==
  /\ match' = Present(primaryMatch)
  /\ IF artistUsable(sourceTrack)
     THEN Await(outcome, "artistFallback", trim(sourceTrack.artist))
     ELSE FinishCounted(outcome, WithPrimarySuggestions(primaryMatch, outcome.tracks))

\* the primary search found candidates (lines 884-891, 931-952)
PrimaryMatched(outcome, primaryMatch) ==
  /\ match' = Present(primaryMatch)
  /\ IF ~IsPresent(primaryMatch.matchedTrack) /\ artistUsable(sourceTrack)
     THEN Await(outcome, "artistFallback", trim(sourceTrack.artist))
     ELSE FinishCounted(outcome, WithPrimarySuggestions(primaryMatch, outcome.tracks))

\* the primary search returns
PrimaryReturns ==
  /\ pc = "primary"
  /\ \E outcome \in Returned :
       /\ candidates' = outcome.tracks
       /\ IF outcome.tracks = << >>
          THEN PrimaryEmpty(outcome, simpleQueryOf(sourceTrack))
          ELSE PrimaryMatched(outcome, matchTrack(sourceTrack, outcome.tracks))
  /\ UNCHANGED << sourceTracks, destinationPlatform, onProgress >>
  /\ UNCHANGED besidesSession

\* the search for the raw title returns (lines 716-730, 792-794)
SimpleReturns ==
  /\ pc = "simple"
  /\ \E outcome \in Returned :
       IF outcome.tracks # << >>
       THEN FinishCounted(outcome, matchTrack(sourceTrack, outcome.tracks))
       ELSE IF artistUsable(sourceTrack)
            THEN Await(outcome, "artist", trim(sourceTrack.artist))
            ELSE KeywordStage(outcome)
  /\ UNCHANGED << sourceTracks, destinationPlatform, onProgress, candidates, match >>
  /\ UNCHANGED besidesSession

\* the artist search that follows the raw-title search returns (lines 730-791)
ArtistReturns ==
  /\ pc = "artist"
  /\ \E outcome \in Returned :
       IF outcome.tracks # << >>
       THEN FinishCounted(outcome, ArtistStageResult(sourceTrack, outcome.tracks))
       ELSE KeywordStage(outcome)
  /\ UNCHANGED << sourceTracks, destinationPlatform, onProgress, candidates, match >>
  /\ UNCHANGED besidesSession

\* a cascade that goes on to the title-only search after the keyword search
WordsReturnThenTitleOnly ==
  /\ pc = "words"
  /\ \E outcome \in Returned :
       Await(outcome, "titleOnly", titleOnlyQueryOf(sourceTrack))
  /\ UNCHANGED << sourceTracks, destinationPlatform, onProgress, candidates, match >>
  /\ UNCHANGED besidesSession

\* the keyword search returns (lines 770-781, 796-807)
WordsReturn ==
  /\ pc = "words"
  /\ \E outcome \in Returned :
       FinishCounted(outcome,
                     WithSuggestions(matchTrack(sourceTrack, outcome.tracks), outcome.tracks))
  /\ UNCHANGED << sourceTracks, destinationPlatform, onProgress, candidates, match >>
  /\ UNCHANGED besidesSession

\* the artist search made when there is no distinct raw-title query returns
\* (lines 823-862)
ArtistOnlyReturns ==
  /\ pc = "artistOnly"
  /\ \E outcome \in Returned :
       IF outcome.tracks # << >>
       THEN FinishCounted(outcome, ArtistStageResult(sourceTrack, outcome.tracks))
       ELSE Await(outcome, "titleOnly", titleOnlyQueryOf(sourceTrack))
  /\ UNCHANGED << sourceTracks, destinationPlatform, onProgress, candidates, match >>
  /\ UNCHANGED besidesSession

\* the search for the first words of the title returns (lines 862-869, 874-881)
TitleOnlyReturns ==
  /\ pc = "titleOnly"
  /\ \E outcome \in Returned :
       Finish(outcome, WithSuggestions(NoMatch(sourceTrack), outcome.tracks), 0)
  /\ UNCHANGED << sourceTracks, destinationPlatform, onProgress, candidates, match >>
  /\ UNCHANGED besidesSession

\* lines 931-940 after the artist fallback: the match is pushed, and counted
\* again if it has a matchedTrack
FinishFallback(outcome, final, counted) ==
  Finish(outcome, final, (IF counted THEN 1 ELSE 0) + Counted(final))

FinishAfter(outcome, after) ==
  FinishFallback(outcome, WithPrimarySuggestions(after.match, candidates), after.counted)

\* the artist search that follows an unmatched primary search returns
\* (lines 891-952)
ArtistFallbackReturns ==
  /\ pc = "artistFallback"
  /\ \E outcome \in Returned :
       FinishAfter(outcome, AfterArtistFallback(sourceTrack, match[1], outcome.tracks))
  /\ UNCHANGED << sourceTracks, destinationPlatform, onProgress, candidates, match >>
  /\ UNCHANGED besidesSession

\* the 100 ms timer fires (line 951)
PauseEnds ==
  /\ pc = "pause"
  /\ NextTrack
  /\ UNCHANGED << sourceTracks, destinationPlatform, onProgress, results, matchedCount,
                  errorCount, candidates, match, calls, progress, pauses >>
  /\ UNCHANGED besidesSession

Next ==
  \/ Return
  \/ SkipTrack
  \/ StartTrack
  \/ SearchThrows
  \/ PrimaryReturns
  \/ SimpleReturns
  \/ ArtistReturns
  \/ WordsReturn
  \/ ArtistOnlyReturns
  \/ TitleOnlyReturns
  \/ ArtistFallbackReturns
  \/ PauseEnds

Spec == Init /\ [][Next]_vars

\* the same session with any callback: one that returns, or one that throws
\* whenever it is called
InitAnyCallback ==
  /\ sourceTracks \in Playlists
  /\ destinationPlatform \in Destinations
  /\ onProgress \in { "returns", "throws" }
  /\ i = 0
  /\ pc = "loop"
  /\ results = << >>
  /\ matchedCount = 0
  /\ errorCount = 0
  /\ candidates = << >>
  /\ match = Absent
  /\ calls = << >>
  /\ progress = << >>
  /\ pauses = << >>
  /\ NothingBesidesSession

SpecAnyCallback == InitAnyCallback /\ [][Next]_vars

\* the session in which every awaited search returns or throws in the end,
\* and the timer of the pause fires
SpecFair == Init /\ [][Next]_vars /\ WF_vars(Next)

\* ------------------------------------------------------------------------
\* Properties of a session
\* ------------------------------------------------------------------------

\* the session is between two tracks, or has returned
Idle == pc \in { "loop", "pause", "done" }

\* a track has been recorded and no later track has been started: calls are
\* the searches made for it
TrackRecorded == Idle /\ results # << >>

lastTrack == sourceTracks[Len(results)]

lastResult == results[Len(results)]

lastQuery == buildSearchQuery(lastTrack, destinationPlatform)

ReturnedSome(call) == call.done /\ ~call.threw /\ call.tracks # << >>

ReturnedNone(call) == call.done /\ ~call.threw /\ call.tracks = << >>

NoCallThrew == \A j \in DOMAIN calls : ~calls[j].threw

\* the stages that search for the artist alone
ArtistStages == { "artist", "artistOnly", "artistFallback" }

\* the tracks of a list that resemble the title of the recorded track
SimilarOf(tracks) ==
  { c \in Range(tracks) : Above(titleSimOf(lastTrack, c), 30) }

\* the number of tracks the loop has finished with
Processed == IF pc = "pause" THEN i + 1 ELSE i

\* C1: whatever the searches answer, there is exactly one MatchResult for
\* every track the loop has finished with, the k-th for the k-th track, and
\* matchTracks returns one for every source track.
C1_OneResultPerTrack ==
  /\ Len(results) = Processed
  /\ \A k \in DOMAIN results : results[k].sourceTrack = sourceTracks[k]
  /\ pc = "done" => Len(results) = Len(sourceTracks)

\* a session of two tracks has returned: a search threw for one of them and
\* the other was matched
C1_Witness ==
  /\ pc = "done"
  /\ Len(sourceTracks) = 2
  /\ errorCount = 1
  /\ matchedCount >= 1
  /\ \E k \in DOMAIN results : IsPresent(results[k].matchedTrack)

\* the step in which the awaited search throws
SearchThrew ==
  /\ pc \in SearchStages
  /\ Len(calls') = Len(calls)
  /\ calls'[Len(calls')].threw

\* C2: when a search throws for track i the session goes on: the track is
\* recorded with confidence none and no matchedTrack, errorCount grows by
\* exactly 1, the loop moves to the next track, and a session that has
\* returned has gone through every track.
C2_SearchExceptionIsLocal ==
  /\ [][ SearchThrew =>
           /\ errorCount' = errorCount + 1
           /\ results' = Append(results, NoMatch(sourceTrack))
           /\ matchedCount' = matchedCount
           /\ i' = i + 1
           /\ pc' = "loop" ]_vars
  /\ [](pc = "done" => i = Len(sourceTracks))

\* the first of two tracks had a search throw, and the second was then
\* searched for and matched
C2_Witness ==
  /\ pc = "done"
  /\ Len(results) = 2
  /\ errorCount = 1
  /\ buildSearchQuery(sourceTracks[1], destinationPlatform) # << >>
  /\ results[1] = NoMatch(sourceTracks[1])
  /\ IsPresent(results[2].matchedTrack)

\* C3: a recorded MatchResult of confidence none has no matchedTrack.
C3_NoneHasNoMatchedTrack ==
  \A k \in DOMAIN results :
    results[k].confidence = "none" => results[k].matchedTrack = Absent

\* one result is a none that matchTrack produced from candidates, another is
\* a match that the artist stage put in the place of a none
C3_Witness ==
  /\ \E k \in DOMAIN results :
       /\ results[k].confidence = "none"
       /\ IsPresent(results[k].allCandidates)
  /\ \E k \in DOMAIN results :
       /\ IsPresent(results[k].matchedTrack)
       /\ IsPresent(results[k].allCandidates)
       /\ results[k].matchedTrack[1] \notin Range(results[k].allCandidates[1])

\* C4: onProgress has been called once for every recorded track, with
\* current the position of the track and total the length of the playlist.
C4_ProgressForEveryTrack ==
  Idle =>
    /\ Len(progress) = Len(results)
    /\ \A k \in DOMAIN progress :
         /\ progress[k].current = k
         /\ progress[k].total = Len(sourceTracks)

\* the number of the first n results that have a matchedTrack
MatchedAmong(n) ==
  Cardinality({ k \in 1..n : IsPresent(results[k].matchedTrack) })

\* C5: in every progress event, matched is the number of the results
\* recorded so far that have a matchedTrack.
C5_ProgressCountsMatched ==
  \A e \in DOMAIN progress :
    /\ progress[e].current <= Len(results)
    /\ progress[e].matched = MatchedAmong(progress[e].current)

\* the artist of the recorded track was searched for
ArtistSearched ==
  \E j \in DOMAIN calls :
    /\ calls[j].stage \in ArtistStages
    /\ calls[j].query = trim(lastTrack.artist)

\* the recorded result is matchTrack's on the artist results that resemble
\* the title, and a none if no artist result does (allCandidates is what
\* matchTrack was given)
MatchedOn(similar, artistCandidates) ==
  /\ lastResult.suggestions = Present(Take(artistCandidates, 5))
  /\ IF similar = {}
     THEN /\ lastResult.allCandidates = Absent
          /\ lastResult.matchedTrack = Absent
     ELSE /\ IsPresent(lastResult.allCandidates)
          /\ Range(lastResult.allCandidates[1]) = similar
          /\ lastResult = WithSuggestions(
                            matchTrack(lastTrack, lastResult.allCandidates[1]),
                            artistCandidates)

MatchedOnSimilarOnly ==
  \A j \in DOMAIN calls :
    (calls[j].stage \in ArtistStages /\ ReturnedSome(calls[j])) =>
      LET similar == SimilarOf(calls[j].tracks)
      IN  MatchedOn(similar, calls[j].tracks)

C7_NoMatchTriggersFallback ==
  (TrackRecorded /\ NoCallThrew) =>
    \A j \in DOMAIN calls :
      ( /\ calls[j].stage \in { "primary", "simple" }
        /\ ReturnedSome(calls[j])
        /\ ~IsPresent(matchTrack(lastTrack, calls[j].tracks).matchedTrack) )
      => \E later \in (j + 1)..Len(calls) :
           calls[later].stage \in
             (IF artistUsable(lastTrack) THEN ArtistStages ELSE { "words" })

\* the title of the track has a keyword query (lines 768-769, 794-795)
HasKeywords(track) ==
  wordsOf(simpleQueryOf(track)) \notin { << >>, simpleQueryOf(track) }

\* an empty answer at stage is followed by another search for the track
FollowedWhenEmpty(stage, track) ==
  CASE stage = "primary" -> TRUE
    [] stage = "simple" -> artistUsable(track) \/ HasKeywords(track)
    [] stage = "artist" -> HasKeywords(track)
    [] stage = "artistOnly" -> TRUE
    [] OTHER -> FALSE

C9_EmptyQueryIsNotSearched ==
  /\ pc \in SearchStages => query # << >>
  /\ (TrackRecorded /\ lastQuery = << >>) =>
       /\ calls = << >>
       /\ lastResult = NoMatch(lastTrack)

\* a track with an empty query was recorded after a track that was searched
\* for and matched
C9_Witness ==
  /\ TrackRecorded
  /\ Len(results) = 2
  /\ lastQuery = << >>
  /\ lastTrack.artist # << >>
  /\ IsPresent(results[1].matchedTrack)
  /\ destinationPlatform = "spotify"

\* high > medium > low > none
Tier(confidence) ==
  CASE confidence = "high" -> 3
    [] confidence = "medium" -> 2
    [] confidence = "low" -> 1
    [] OTHER -> 0

\* the recorded result keeps what matchTrack gave on the primary candidates
Stands(primaryMatch) ==
  /\ Tier(lastResult.confidence) >= Tier(primaryMatch.confidence)
  /\ IsPresent(primaryMatch.matchedTrack) =>
       /\ lastResult.matchedTrack = primaryMatch.matchedTrack
       /\ lastResult.confidence = primaryMatch.confidence
       /\ Len(calls) = 1

\* C10: the recorded confidence is never below the one matchTrack gave on
\* the primary candidates, and a matchedTrack found there is recorded
\* unchanged, with its confidence.
C10_PrimaryMatchStands ==
  (TrackRecorded /\ calls # << >> /\ ReturnedSome(calls[1])) =>
    LET primaryMatch == matchTrack(lastTrack, calls[1].tracks)
    IN  Stands(primaryMatch)

\* the first track got a none from its primary candidates, the second was
\* matched with confidence medium by the primary search and has a usable
\* artist
C10_Witness ==
  /\ TrackRecorded
  /\ Len(results) = 2
  /\ results[1].confidence = "none"
  /\ IsPresent(results[1].allCandidates)
  /\ Len(calls) = 1 /\ ReturnedSome(calls[1])
  /\ artistUsable(lastTrack)
  /\ lastResult.confidence = "medium"

\* no two tracks of the list have the same id and platform
NoDuplicates(list) ==
  \A a, b \in DOMAIN list :
    a # b => << list[a].id, list[a].platform >> # << list[b].id, list[b].platform >>

\* C11: every recorded MatchResult has at most 5 suggestions, no two of
\* them with the same id and platform.
C11_SuggestionsCappedAndDistinct ==
  \A k \in DOMAIN results :
    IsPresent(results[k].suggestions) =>
      /\ Len(results[k].suggestions[1]) <= 5
      /\ NoDuplicates(results[k].suggestions[1])

\* the track was recorded after a primary search with candidates but no
\* match and an artist search that returned candidates
ArtistFallbackAnswered ==
  /\ TrackRecorded
  /\ Len(calls) = 2
  /\ ReturnedSome(calls[1])
  /\ calls[2].stage = "artistFallback"
  /\ ReturnedSome(calls[2])

\* the merge of the suggestions so far and the first 5 artist results,
\* without duplicates, at most 5
MergeOf(before, artistCandidates) ==
  Take(Dedupe(before \o Take(artistCandidates, 5), {}), 5)

\* C12: after a primary search with candidates but no match and an artist
\* search with candidates, the recorded suggestions are the merge of the
\* primary stage's suggestions (none, or the first 5 primary candidates) and
\* the first 5 artist results, whether or not the artist stage matched.
C12_SuggestionsAreMerged ==
  ArtistFallbackAnswered =>
    lastResult.suggestions \in
      { Present(MergeOf(<< >>, calls[2].tracks)),
        Present(MergeOf(Take(calls[1].tracks, 5), calls[2].tracks)) }

\* the recorded result is the artist match, with the fixed reason
SupersededBy(artistMatch) ==
  IsPresent(artistMatch.matchedTrack) =>
    /\ lastResult.matchedTrack = artistMatch.matchedTrack
    /\ lastResult.confidence = artistMatch.confidence
    /\ lastResult.matchReason = Present("Matched by artist + title comparison")

\* C13: when the primary match is none and the artist stage yields a
\* matchedTrack, the recorded result carries that matchedTrack, its
\* confidence, and the matchReason "Matched by artist + title comparison".
C13_ArtistMatchReason ==
  (ArtistFallbackAnswered /\ SimilarOf(calls[2].tracks) # {}) =>
    LET artistMatch == matchTrack(lastTrack,
                                  filteredCandidatesOf(lastTrack, calls[2].tracks))
    IN  SupersededBy(artistMatch)

\* C13, what the code does instead: the recorded reason is the one matchTrack
\* gave the artist match
ArtistReasonKept ==
  (ArtistFallbackAnswered /\ IsPresent(lastResult.matchedTrack)) =>
    lastResult.matchReason \in
      { Present("Exact match"), Present("High similarity"),
        Present("Title match"), Present("Partial match") }

\* the searches that have been issued and have neither returned nor thrown
Outstanding == { j \in DOMAIN calls : ~calls[j].done }

\* C14: at most one search is outstanding at any time: while the session
\* awaits a search it is the last one issued, every earlier search of the
\* track has returned, and every earlier track has been recorded; between
\* tracks no search is outstanding.
C14_OneSearchAtATime ==
  /\ Cardinality(Outstanding) <= 1
  /\ pc \in SearchStages => (Outstanding = { Len(calls) } /\ Len(results) = i)
  /\ pc \notin SearchStages => Outstanding = {}

\* the third search of the second track is awaited
C14_Witness ==
  /\ pc \in SearchStages
  /\ Len(calls) = 3
  /\ i = 1
  /\ Len(results) = 1

\* C15: a search for a track other than the first is issued only after the
\* pause that follows the track before it, and no pause follows the last
\* track.
C15_PauseBetweenTracks ==
  /\ (pc \in SearchStages /\ i >= 1) => (i - 1) \in Range(pauses)
  /\ (Len(sourceTracks) - 1) \notin Range(pauses)

\* C15, the exception case alone: the track before the one searched for was
\* recorded by the catch block
C15_PauseAfterException ==
  (pc \in SearchStages /\ i >= 1 /\ errorCount >= 1
     /\ buildSearchQuery(sourceTracks[i], destinationPlatform) # << >>)
  => (i - 1) \in Range(pauses)

\* ------------------------------------------------------------------------
\* matchTrack on its own: a source track and a list of candidates
\* ------------------------------------------------------------------------

\* a source track with an artist of two words and a duration
TwoWordArtist ==
  [ id |-> << "t", "1" >>, title |-> << "M", "y", " ", "S", "o", "n", "g" >>,
    artist |-> << "B", "i", "g", " ", "B", "a", "n", "d" >>,
    duration |-> 200, platform |-> "youtube" ]

\* a source track with no artist that is not parsed (title weight 0.9)
TitleOnly ==
  [ id |-> << "t", "2" >>, title |-> << "M", "y", " ", "S", "o", "n", "g" >>,
    artist |-> << >>,
    duration |-> 0, platform |-> "spotify" ]

ScoringSources == { TwoWordArtist, TitleOnly }

\* against TwoWordArtist: title 1, artist 1, duration bonus 0.15
SameTrack ==
  [ id |-> << "q", "1" >>, title |-> << "M", "y", " ", "S", "o", "n", "g" >>,
    artist |-> << "B", "i", "g", " ", "B", "a", "n", "d" >>,
    duration |-> 200, platform |-> "spotify" ]

\* title 1, artist 0: 0.6 + 0.1, exactly 0.7
OtherArtist ==
  [ id |-> << "q", "2" >>, title |-> << "M", "y", " ", "S", "o", "n", "g" >>,
    artist |-> << "E", "l", "s", "e" >>,
    duration |-> 0, platform |-> "spotify" ]

\* another track with the scores of OtherArtist
OtherArtistTwin ==
  [ id |-> << "q", "3" >>, title |-> << "M", "y", " ", "S", "o", "n", "g" >>,
    artist |-> << "O", "t", "h", "e", "r" >>,
    duration |-> 0, platform |-> "spotify" ]

\* title 1, artist 1/3, with the strong-title bonus
ThirdArtist ==
  [ id |-> << "q", "4" >>, title |-> << "M", "y", " ", "S", "o", "n", "g" >>,
    artist |-> << "B", "i", "g", " ", "B", "a", "d", " ", "W", "o", "l", "f" >>,
    duration |-> 0, platform |-> "spotify" ]

\* title 1, artist 1/2, without the bonus: 0.8
HalfArtist ==
  [ id |-> << "q", "5" >>, title |-> << "M", "y", " ", "S", "o", "n", "g" >>,
    artist |-> << "B", "i", "g", " ", "W", "o", "l", "f" >>,
    duration |-> 0, platform |-> "spotify" ]

\* title 1/2, artist 1/2: exactly 0.5
HalfBoth ==
  [ id |-> << "q", "6" >>, title |-> << "M", "y", " ", "T", "u", "n", "e" >>,
    artist |-> << "B", "i", "g", " ", "W", "o", "l", "f" >>,
    duration |-> 0, platform |-> "spotify" ]

\* title 1/2, artist 0: exactly 0.3
HalfTitle ==
  [ id |-> << "q", "7" >>, title |-> << "M", "y", " ", "T", "u", "n", "e" >>,
    artist |-> << "E", "l", "s", "e" >>,
    duration |-> 0, platform |-> "spotify" ]

\* title 0.8, artist 1/3: 0.6133
LiveThird ==
  [ id |-> << "q", "8" >>, title |-> << "M", "y", " ", "S", "o", "n", "g", " ", "L", "i", "v", "e" >>,
    artist |-> << "B", "i", "g", " ", "B", "a", "d", " ", "W", "o", "l", "f" >>,
    duration |-> 0, platform |-> "spotify" ]

\* title 0.8, artist 1/2: 0.68
LiveHalf ==
  [ id |-> << "q", "1", "0" >>, title |-> << "M", "y", " ", "S", "o", "n", "g", " ", "L", "i", "v", "e" >>,
    artist |-> << "B", "i", "g", " ", "W", "o", "l", "f" >>,
    duration |-> 0, platform |-> "spotify" ]

\* title 0, artist 1/2: 0.2
ArtistAlone ==
  [ id |-> << "q", "9" >>, title |-> << "Y", "o", "u", "r", " ", "T", "u", "n", "e" >>,
    artist |-> << "B", "i", "g", " ", "W", "o", "l", "f" >>,
    duration |-> 0, platform |-> "spotify" ]

\* title 0, artist 1, the same duration: 0.55
SameArtist ==
  [ id |-> << "q", "1", "1" >>, title |-> << "Y", "o", "u", "r", " ", "T", "u", "n", "e" >>,
    artist |-> << "B", "i", "g", " ", "B", "a", "n", "d" >>,
    duration |-> 200, platform |-> "spotify" ]

CandidatePool ==
  { SameArtist,
    SameTrack,
    OtherArtist,
    OtherArtistTwin,
    ThirdArtist,
    HalfArtist,
    HalfBoth,
    HalfTitle,
    LiveThird,
    LiveHalf,
    ArtistAlone }

\* the candidate lists: up to MaxCandidates tracks of the pool
MaxCandidates == 2

CandidateLists ==
  UNION { [ 1..n -> CandidatePool ] : n \in 0..MaxCandidates }

\* two fractions are equal
SameFraction(f, g) == f[1] * g[2] = g[1] * f[2]

\* one of the two scores is higher and the other is the same
OneRaised(titleScore, artistScore, raisedTitleScore, raisedArtistScore) ==
  \/ /\ Greater(raisedTitleScore, titleScore)
     /\ SameFraction(raisedArtistScore, artistScore)
  \/ /\ Greater(raisedArtistScore, artistScore)
     /\ SameFraction(raisedTitleScore, titleScore)

\* the candidate raised has a higher titleScore or a higher artistScore
\* than the candidate it replaces, and every other component the same
RaisedFrom(track, source, old, raised) ==
  /\ DurationBonus(track, raised) = DurationBonus(track, old)
  /\ OneRaised(similarity(source.title, old.title),
               artistScoreOf(source.artist, old),
               similarity(source.title, raised.title),
               artistScoreOf(source.artist, raised))

\* the raises there are among the tracks of the pool, for each source
Raises ==
  { << r[1], r[2], r[3] >> :
      r \in { q \in ScoringSources \X CandidatePool \X CandidatePool :
                RaisedFrom(q[1], SourceFields(q[1]), q[2], q[3]) } }

\* matchTrack is about to be called on candidates for sourceTracks[1]
InitMatchTrack ==
  /\ sourceTracks \in { << s >> : s \in ScoringSources }
  /\ candidates \in CandidateLists
  /\ destinationPlatform = "spotify"
  /\ onProgress = "returns"
  /\ i = 0
  /\ pc = "matchTrack"
  /\ results = << >>
  /\ matchedCount = 0
  /\ errorCount = 0
  /\ match = Absent
  /\ calls = << >>
  /\ progress = << >>
  /\ pauses = << >>
  /\ NothingBesidesSession

\* the last of a list, as a list
LastOf(list) == IF list = << >> THEN << >> ELSE << list[Len(list)] >>

\* matchTrack(sourceTrack, candidates) returns; results keeps what it
\* returned, after what the call before it returned (if there was one)
CallMatchTrack ==
  /\ pc = "matchTrack"
  /\ results' = Append(results, matchTrack(sourceTrack, candidates))
  /\ pc' = "returned"
  /\ UNCHANGED << sourceTracks, destinationPlatform, onProgress, i, matchedCount,
                  errorCount, candidates, match, calls, progress, pauses >>
  /\ UNCHANGED besidesSession

\* the next call has one candidate replaced by a candidate with a higher
\* titleScore or artistScore; of the returns so far only the last is kept
RaiseCandidate ==
  /\ pc = "returned"
  /\ \E k \in DOMAIN candidates, raised \in CandidatePool :
       /\ << sourceTrack, candidates[k], raised >> \in Raises
       /\ candidates' = [ candidates EXCEPT ![k] = raised ]
  /\ results' = LastOf(results)
  /\ pc' = "matchTrack"
  /\ UNCHANGED << sourceTracks, destinationPlatform, onProgress, i,
                  matchedCount, errorCount, match, calls, progress, pauses >>
  /\ UNCHANGED besidesSession

NextMatchTrack == CallMatchTrack \/ RaiseCandidate

SpecMatchTrack == InitMatchTrack /\ [][NextMatchTrack]_vars

\* what the last call of matchTrack returned
returned == results[Len(results)]

\* the cumulative scores of the candidates of a list
ScoresOf(track, list) ==
  { ScoredCandidate(track, SourceFields(track), list[k]).score : k \in DOMAIN list }

\* the highest of a set of scores
Highest(scores) == CHOOSE s \in scores : \A u \in scores : ~Greater(u, s)

\* the tier of a MatchResult is the one the thresholds give the score
TieredAs(score, result) ==
  /\ AtLeast(score, 70) => result.confidence = "high"
  /\ (AtLeast(score, 50) /\ Below(score, 70)) => result.confidence = "medium"
  /\ (AtLeast(score, 30) /\ Below(score, 50)) => result.confidence = "low"
  /\ AtLeast(score, 30) =>
       (IsPresent(result.matchedTrack) /\ IsPresent(result.matchReason))
  /\ Below(score, 30) =>
       /\ result.confidence = "none"
       /\ result.matchedTrack = Absent
       /\ result.matchReason = Absent

\* C16: matchTrack returns high for a best score of at least 0.7, medium
\* from 0.5, low from 0.3, and below 0.3 none with neither matchedTrack nor
\* matchReason; for an empty candidate list it returns none without a
\* matchedTrack.
C16_TiersByScore ==
  pc = "returned" =>
    IF candidates = << >>
    THEN returned.confidence = "none" /\ returned.matchedTrack = Absent
    ELSE LET best == Highest(ScoresOf(sourceTrack, candidates))
         IN  TieredAs(best, returned)

\* a call returned low for the score 0.3 exactly, and the call after it, with
\* one candidate raised to the score 0.7 exactly, returned high
C16_Witness ==
  /\ pc = "returned"
  /\ sourceTrack = TwoWordArtist
  /\ candidates = << HalfTitle, OtherArtist >>
  /\ returned.confidence = "high"
  /\ Len(results) = 2
  /\ results[1].allCandidates = Present(<< HalfTitle, HalfTitle >>)
  /\ results[1].confidence = "low"

\* C17: a call of matchTrack in which one candidate has a higher titleScore
\* or artistScore than in the call before, everything else the same, never
\* returns a lower tier than the call before.
C17_RaiseNeverLowersTier ==
  (pc = "returned" /\ Len(results) = 2) =>
    Tier(results[2].confidence) >= Tier(results[1].confidence)

\* the best score fell from one call to the next
ScoreFell(before, after) == Greater(before, after)

\* a raise of the artistScore cost the candidate the strong-title bonus and
\* the best score fell
C17_Witness ==
  /\ pc = "returned"
  /\ Len(results) = 2
  /\ candidates # << >>
  /\ ScoreFell(Highest(ScoresOf(sourceTrack, results[1].allCandidates[1])),
               Highest(ScoresOf(sourceTrack, candidates)))

\* the first candidate of the list that has the score
FirstWith(track, list, score) ==
  list[Min({ k \in DOMAIN list :
               SameFraction(ScoredCandidate(track, SourceFields(track), list[k]).score,
                            score) })]

\* C20: the matchedTrack matchTrack returns is the first candidate of the
\* list that has the highest score.
C20_FirstBestWins ==
  (pc = "returned" /\ IsPresent(returned.matchedTrack)) =>
    LET best == Highest(ScoresOf(sourceTrack, candidates))
    IN  returned.matchedTrack = Present(FirstWith(sourceTrack, candidates, best))

\* two different tracks have the highest score and the first was returned
C20_Witness ==
  /\ pc = "returned"
  /\ candidates = << OtherArtistTwin, OtherArtist >>
  /\ sourceTrack = TwoWordArtist
  /\ returned.matchedTrack = Present(OtherArtistTwin)


\* ------------------------------------------------------------------------
\* buildSearchQuery (lines 636-677)

\* the query the cleaned fields give: both joined by a space, the title alone
\* for an empty artist, and "" for nothing but two empty fields
QueryOfCleaned(artist, title, q) ==
  /\ (artist # << >> /\ title # << >>) => q = artist \o << " " >> \o title
  /\ artist = << >> => q = title
  /\ q = << >> => (artist = << >> /\ title = << >>)

\* C18: for every destination platform the query buildSearchQuery returns is
\* "<cleanedArtist> <cleanedTitle>" when both are non-empty, the cleaned title
\* when the cleaned artist is empty, and "" only when both are empty: so the
\* primary search is issued with that query, and a track is skipped for its
\* empty query only when both its fields clean to "".
C18_QueryFromCleanedFields ==
  /\ (pc = "primary" /\ Len(calls) = 1) =>
       QueryOfCleaned(cleanArtist(sourceTrack.artist), cleanTitle(sourceTrack.title),
                      calls[1].query)
  /\ (pc = "loop" /\ i > 0 /\ calls = << >>) =>
       QueryOfCleaned(cleanArtist(lastTrack.artist), cleanTitle(lastTrack.title), << >>)

\* the same for the platforms buildSearchQuery has a branch for, and only
\* for the searches issued
C18_QueryOnSearchPlatforms ==
  (pc = "primary" /\ Len(calls) = 1 /\ destinationPlatform \in { "spotify", "youtube" }) =>
    QueryOfCleaned(cleanArtist(sourceTrack.artist), cleanTitle(sourceTrack.title),
                   calls[1].query)


\* ------------------------------------------------------------------------
\* GlobalAudioManager (ThemeToggle.tsx, lines 164-201) and
\* AudioPreview.handlePlay (lines 636-762)
\* ------------------------------------------------------------------------

\* the state the methods below change, as one value
Page ==
  [ currentAudio |-> currentAudio, currentStopCallback |-> currentStopCallback,
    paused |-> paused, isPlaying |-> isPlaying, handlers |-> handlers ]

\* HTMLMediaElement.pause(): the element is paused, and the promises of
\* play() that are pending on it are rejected (AbortError)
pause(m, c) ==
  IF m.paused[c]
  THEN m
  ELSE [ m EXCEPT !.paused[c] = TRUE,
                  !.handlers[c] = [ url |-> @.url, play |-> 0,
                                    rejected |-> @.rejected + @.play ] ]

\* setIsPlaying(value) of the preview c
setIsPlaying(m, c, value) == [ m EXCEPT !.isPlaying[c] = value ]

\* stopCurrent, lines 187-190: the current audio is paused if it plays
pausedCurrent(m) ==
  IF IsPresent(m.currentAudio) /\ ~m.paused[m.currentAudio[1]]
  THEN pause(m, m.currentAudio[1])
  ELSE m

\* stopCurrent, lines 191-193: the stop callback is called
calledBack(m) ==
  IF IsPresent(m.currentStopCallback)
  THEN setIsPlaying(m, m.currentStopCallback[1], FALSE)
  ELSE m

\* a manager that forgets the current audio without stopping it
forgetCurrent(m) ==
  [ m EXCEPT !.currentAudio = Absent, !.currentStopCallback = Absent ]

\* stopCurrent (lines 186-196)
stopCurrent(m) ==
  [ calledBack(pausedCurrent(m)) EXCEPT !.currentAudio = Absent,
                                         !.currentStopCallback = Absent ]

\* playAudio (lines 177-184)
playAudio(m, element, stopCallback) ==
  [ stopCurrent(m) EXCEPT !.currentAudio = Present(element),
                          !.currentStopCallback = Present(stopCallback) ]

\* audioRef.current.play() (line 716): the element plays and the promise is
\* pending, or the browser does not allow it and the promise is rejected
play(m, c, allowed) ==
  IF allowed
  THEN [ m EXCEPT !.paused[c] = FALSE, !.handlers[c].play = @ + 1 ]
  ELSE [ m EXCEPT !.handlers[c].rejected = @ + 1 ]

\* a call of handlePlay goes on after await getPreviewUrl() (line 681)
resumed(m, c) == [ m EXCEPT !.handlers[c].url = @ - 1 ]

\* handlePlay from line 688 to line 716, with a valid url
playRequested(m, c, allowed) ==
  play(playAudio(pause(resumed(m, c), c), c, c), c, allowed)

\* the calls of handlePlay that wait
Waiting(h) ==
  LET of(c) == h[c].url + h[c].play + h[c].rejected
      sum[n \in 0 .. MaxPreviews] == IF n = 0 THEN 0 ELSE sum[n - 1] + of(n)
  IN  sum[MaxPreviews]

\* the page becomes m
Becomes(m) ==
  /\ currentAudio' = m.currentAudio
  /\ currentStopCallback' = m.currentStopCallback
  /\ paused' = m.paused
  /\ isPlaying' = m.isPlaying
  /\ handlers' = m.handlers

InitAudio == AudioAtRest /\ NothingBesidesAudio

\* a click on the button of a preview that does not play: handlePlay runs
\* up to await getPreviewUrl() (lines 636-681)
ClickPlay ==
  \E c \in Previews :
    /\ audioRef[c]
    /\ ~isPlaying[c]
    /\ Waiting(handlers) < MaxHandlers
    /\ handlers' = [ handlers EXCEPT ![c].url = @ + 1 ]
    /\ UNCHANGED << currentAudio, currentStopCallback, paused, isPlaying, audioRef,
                    besidesAudio >>

\* a click on the button of a preview that plays (lines 672-679)
ClickPause ==
  \E c \in Previews :
    /\ audioRef[c]
    /\ isPlaying[c]
    /\ Becomes(setIsPlaying(pause(Page, c), c, FALSE))
    /\ UNCHANGED << audioRef, besidesAudio >>

\* getPreviewUrl resolves with null, or the element is gone (lines 682-688)
NoPreview ==
  \E c \in Previews :
    /\ handlers[c].url > 0
    /\ Becomes(resumed(Page, c))
    /\ UNCHANGED << audioRef, besidesAudio >>

\* getPreviewUrl resolves with a url that is not valid: the element is
\* paused and the catch block runs (lines 690-705, 721-741)
InvalidUrl ==
  \E c \in Previews :
    /\ handlers[c].url > 0
    /\ audioRef[c]
    /\ Becomes(setIsPlaying(pause(resumed(Page, c), c), c, FALSE))
    /\ UNCHANGED << audioRef, besidesAudio >>

\* getPreviewUrl resolves with a valid url: the element is paused, registered
\* with the manager and played (lines 688-718)
PlayRequested ==
  \E c \in Previews, allowed \in BOOLEAN :
    /\ handlers[c].url > 0
    /\ audioRef[c]
    /\ Becomes(playRequested(Page, c, allowed))
    /\ UNCHANGED << audioRef, besidesAudio >>

\* playback starts: the promise of play() is resolved (lines 718-720)
PlayStarts ==
  \E c \in Previews :
    /\ handlers[c].play > 0
    /\ ~paused[c]
    /\ isPlaying' = [ isPlaying EXCEPT ![c] = TRUE ]
    /\ handlers' = [ handlers EXCEPT ![c].play = 0 ]
    /\ UNCHANGED << currentAudio, currentStopCallback, paused, audioRef, besidesAudio >>

\* the source cannot be played: the element fires error, whose listener
\* calls setIsPlaying(false) (lines 658-661), and the promise is rejected;
\* the element stays as it is
PlayFails ==
  \E c \in Previews :
    /\ handlers[c].play > 0
    /\ isPlaying' = [ isPlaying EXCEPT ![c] = FALSE ]
    /\ handlers' = [ handlers EXCEPT ![c] = [ url |-> @.url, play |-> 0,
                                                rejected |-> @.rejected + @.play ] ]
    /\ UNCHANGED << currentAudio, currentStopCallback, paused, audioRef, besidesAudio >>

\* the catch block of a rejected promise of play() (lines 721-741)
PlayRejected ==
  \E c \in Previews :
    /\ handlers[c].rejected > 0
    /\ isPlaying' = [ isPlaying EXCEPT ![c] = FALSE ]
    /\ handlers' = [ handlers EXCEPT ![c].rejected = @ - 1 ]
    /\ UNCHANGED << currentAudio, currentStopCallback, paused, audioRef, besidesAudio >>

\* the audio plays to its end: the element is paused and fires ended, whose
\* listener calls setIsPlaying(false) (line 657)
Ended ==
  \E c \in Previews :
    /\ ~paused[c]
    /\ handlers[c].play = 0
    /\ paused' = [ paused EXCEPT ![c] = TRUE ]
    /\ isPlaying' = [ isPlaying EXCEPT ![c] = FALSE ]
    /\ UNCHANGED << currentAudio, currentStopCallback, handlers, audioRef, besidesAudio >>

\* the preview is unmounted: the cleanup of the effect pauses the element
\* and clears audioRef (lines 292-310)
Unmount ==
  \E c \in Previews :
    /\ audioRef[c]
    /\ Becomes(pause(Page, c))
    /\ audioRef' = [ audioRef EXCEPT ![c] = FALSE ]
    /\ UNCHANGED besidesAudio

NextAudio ==
  \/ ClickPlay
  \/ ClickPause
  \/ NoPreview
  \/ InvalidUrl
  \/ PlayRequested
  \/ PlayStarts
  \/ PlayFails
  \/ PlayRejected
  \/ Ended
  \/ Unmount

SpecAudio == InitAudio /\ [][NextAudio]_vars

\* the audio elements that are not paused
Playing == { c \in Previews : ~paused[c] }

\* at most one audio element is not paused
OnePlaying == Cardinality(Playing) <= 1

\* a step in which a call of handlePlay of c has gone on from getPreviewUrl
\* to play()
PlayRequestOf(c) ==
  /\ handlers'[c].url = handlers[c].url - 1
  /\ handlers'[c].play + handlers'[c].rejected
       = handlers[c].play + handlers[c].rejected + 1

\* after the step c is registered, the audio registered before is paused and
\* its stop callback has been called
StopsPrevious(c) ==
  /\ currentAudio' = Present(c)
  /\ currentStopCallback' = Present(c)
  /\ (IsPresent(currentAudio) /\ currentAudio # Present(c)) =>
       paused'[currentAudio[1]]
  /\ IsPresent(currentStopCallback) => ~isPlaying'[currentStopCallback[1]]
  /\ Playing' \subseteq { c }

\* C19: at most one audio element of the previews is playing at any time,
\* whatever the order of clicks, answers of getPreviewUrl and promises of
\* play(); and every play request pauses the audio registered before it and
\* calls its stop callback before the new audio plays.
C19_OneAudioAtATime ==
  /\ []OnePlaying
  /\ [][\A c \in Previews : PlayRequestOf(c) => StopsPrevious(c)]_vars

\* preview 2 plays and is registered while the promise of play() of
\* preview 1, which it stopped, is rejected and its catch block is yet to run
C19_Witness ==
  /\ currentAudio = Present(2)
  /\ ~paused[2]
  /\ handlers[2].play = 1
  /\ paused[1]
  /\ handlers[1].rejected = 1


\* ------------------------------------------------------------------------
\* parseTrackTitle and similarity, called on their own
\* ------------------------------------------------------------------------

\* the pieces, and the characters, a text is made of at most
MaxLen == 3

\* the pieces of a video title: a word, a blank, and three of the separators
TitlePieces ==
  { << "A" >>, << " " >>, << " ", "-", " " >>, << " ", "endash", " " >>,
    << " ", "|", " " >> }

\* the characters of the strings compared: two letters (one of them in upper
\* case), the blank, and a character normalizeText removes
TextAlphabet == { "a", "B", " ", "!" }

RECURSIVE Concat(_)
Concat(pieces) ==
  IF pieces = << >> THEN << >> ELSE pieces[1] \o Concat(Tail(pieces))

Titles ==
  { Concat(pieces) : pieces \in UNION { [ 1 .. n -> TitlePieces ] : n \in 0 .. MaxLen } }

Strings == UNION { [ 1 .. n -> TextAlphabet ] : n \in 0 .. MaxLen }

InitPure ==
  /\ NothingBesidesPure
  /\ ret = Absent
  /\ \/ fn = "parseTrackTitle" /\ args \in { << title >> : title \in Titles }
     \/ fn = "similarity" /\ args \in Strings \X Strings

\* parseTrackTitle(title) returns
CallParseTrackTitle ==
  /\ fn = "parseTrackTitle"
  /\ ret = Absent
  /\ ret' = Present(parseTrackTitle(args[1]))
  /\ UNCHANGED << fn, args, besidesPure >>

\* similarity(str1, str2) returns
CallSimilarity ==
  /\ fn = "similarity"
  /\ ret = Absent
  /\ ret' = Present(similarity(args[1], args[2]))
  /\ UNCHANGED << fn, args, besidesPure >>

NextPure == CallParseTrackTitle \/ CallSimilarity

SpecPure == InitPure /\ [][NextPure]_vars

\* parseTrackTitle has returned r for title
ParsedAs(title, r) == fn = "parseTrackTitle" /\ args = << title >> /\ ret = Present(r)

\* the separators that split title into exactly two parts
SplittingInTwo(title) ==
  { k \in DOMAIN TitleSeparators : Len(split(title, TitleSeparators[k])) = 2 }

\* what the parts of the first of them are, when both are non-empty
TwoNonEmptyParts(title) ==
  IF SplittingInTwo(title) = {} THEN Absent
  ELSE LET parts == split(title, TitleSeparators[Min(SplittingInTwo(title))])
       IN  IF trim(parts[1]) # << >> /\ trim(parts[2]) # << >>
           THEN Present(parts)
           ELSE Absent

\* the result of parseTrackTitle when such parts are parts, or absent
FromParts(title, parts, r) ==
  IF IsPresent(parts)
  THEN r = [ artist |-> trim(parts[1][1]), title |-> trim(parts[1][2]) ]
  ELSE r = [ artist |-> << >>, title |-> trim(title) ]

\* C21: parseTrackTitle returns a non-empty artist only when the first
\* separator that splits the title into exactly two parts gives two non-empty
\* parts; otherwise it returns the artist "" and the trimmed whole title, and
\* so never an empty title with a non-empty artist.
C21_ArtistOnlyWithTitle ==
  (fn = "parseTrackTitle" /\ IsPresent(ret)) =>
    /\ FromParts(args[1], TwoNonEmptyParts(args[1]), ret[1])
    /\ ret[1].artist # << >> => ret[1].title # << >>

\* parseTrackTitle never returns an empty title with a non-empty artist
C21_NoArtistWithoutTitle ==
  (fn = "parseTrackTitle" /\ IsPresent(ret)) =>
    (ret[1].artist # << >> => ret[1].title # << >>)

\* parseTrackTitle does what C21 says of it for every title that no
\* separator splits into exactly two parts of which one is empty
C21_HoldsForNonEmptyParts ==
  (/\ fn = "parseTrackTitle"
   /\ IsPresent(ret)
   /\ (SplittingInTwo(args[1]) # {} => IsPresent(TwoNonEmptyParts(args[1])))) =>
    FromParts(args[1], TwoNonEmptyParts(args[1]), ret[1])

\* C22: similarity(str1, str2) lies in [0, 1] for all strings, those with
\* repeated words and those that normalize to "" included, and
\* similarity(a, a) = 1 for every non-empty a.
C22_SimilarityBounds ==
  (fn = "similarity" /\ IsPresent(ret)) =>
    /\ ret[1][2] > 0
    /\ 0 <= ret[1][1]
    /\ ret[1][1] <= ret[1][2]
    /\ (args[1] = args[2] /\ args[1] # << >>) => ret[1][1] = ret[1][2]

\* a string of one character that normalizes to "" has been compared with
\* itself
C22_Witness ==
  /\ fn = "similarity"
  /\ args = << << "!" >>, << "!" >> >>
  /\ normalizeText(args[1]) = << >>
  /\ ret = Present(<< 1, 1 >>)

\* both words of a string that repeats a word are counted
C22_RepeatedWords ==
  /\ fn = "similarity"
  /\ args = << << "a", " ", "a" >>, << "B", " ", "a" >> >>
  /\ ret = Present(<< 2, 2 >>)


\* ------------------------------------------------------------------------
\* The results of a session, continued
\* ------------------------------------------------------------------------

\* the matchedTrack of a result is one of its allCandidates
AmongAllCandidates(result) ==
  (IsPresent(result.matchedTrack) /\ IsPresent(result.allCandidates)) =>
    result.matchedTrack[1] \in Range(result.allCandidates[1])

\* C26: the matchedTrack of every recorded MatchResult that has both a
\* matchedTrack and an allCandidates list is one of the tracks in allCandidates.
C26_MatchedTrackAmongCandidates ==
  \A k \in DOMAIN results : AmongAllCandidates(results[k])

\* the same for the results no artist fallback has changed
C26_AmongCandidatesWithoutFallback ==
  (TrackRecorded /\ ~(\E j \in DOMAIN calls : calls[j].stage = "artistFallback")) =>
    AmongAllCandidates(lastResult)


\* the tracks the loop has finished with are not recorded twice, and none of
\* them is both counted as an error and reported to onProgress
RecordedOnce ==
  /\ Len(results) = Processed
  /\ errorCount + Len(progress) <= Processed

\* C27: when onProgress throws for a track whose MatchResult has been
\* recorded, no second MatchResult is recorded for the track and the track is
\* not counted as an error: there is one MatchResult for every track the loop
\* has finished with, and no track that was reported to onProgress is among
\* the errors.
C27_CallbackThrowIsNotAnError == RecordedOnce

\* the same of a session whose onProgress returns
C27_HoldsWhenCallbackReturns == onProgress = "returns" => RecordedOnce

\* C28: matchTracks issues at most 4 searches for a track, and a session in
\* which every search returns or throws in the end returns in the end.
C28_FourSearchesAndReturn ==
  /\ [](Len(calls) <= 4)
  /\ <>(pc = "done")

\* the session of two tracks has returned, and for its last track it made
\* the four searches: primary, raw title, artist, keywords
C28_Witness ==
  /\ pc = "done"
  /\ Len(sourceTracks) = 2
  /\ Len(calls) = 4
  /\ calls[4].stage = "words"
  /\ calls[4].done


\* the title similarity matchTrack computes for a candidate (line 477)
titleScoreOf(track, candidate) == similarity(SourceFields(track).title, candidate.title)

\* C29: the matchedTrack matchTrack returns never has the title similarity 0
\* to the source title: the artist similarity and the duration bonus alone
\* do not lift a candidate to low or above.
C29_NoMatchWithoutTitle ==
  (pc = "returned" /\ IsPresent(returned.matchedTrack)) =>
    titleScoreOf(sourceTrack, returned.matchedTrack[1])[1] > 0

\* the same for a source track without an artist
C29_HoldsWithoutSourceArtist ==
  (pc = "returned" /\ IsPresent(returned.matchedTrack)
     /\ SourceFields(sourceTrack).artist = << >>) =>
    titleScoreOf(sourceTrack, returned.matchedTrack[1])[1] > 0


\* ------------------------------------------------------------------------
\* Creating the playlist on the destination platform
\* (demo-playlists.ts, lines 112-374)
\* ------------------------------------------------------------------------

\* Spotify takes up to 100 tracks in one request (line 161)
ChunkSize == 100

\* the longest list of tracks: two full chunks and one track more
MaxUris == 201

MaxResults == 3

\* a request sent to the platform: the endpoint and what the body carries
Request(url, body) == [ url |-> url, body |-> body ]

\* tracks.map((track) => `spotify:track:${track.id}`).filter(Boolean): the
\* strings are never empty, so the filter keeps them all
trackUris(list) == [ k \in 1 .. Len(list) |-> << "spotify:track:", list[k].id >> ]

\* trackUris.slice(i, i + 100) taken one URI too long
chunkOfOneMore(uris, k) ==
  SubSeq(uris, k + 1, IF k + ChunkSize + 1 < Len(uris) THEN k + ChunkSize + 1 ELSE Len(uris))

\* trackUris.slice(i, i + 100)
chunkOf(uris, k) ==
  SubSeq(uris, k + 1, IF k + ChunkSize < Len(uris) THEN k + ChunkSize ELSE Len(uris))

\* the filter and the map of createPlaylist, with the tracks in reverse order
RECURSIVE tracksOfReversed(_)
tracksOfReversed(list) ==
  IF list = << >> THEN << >>
  ELSE IF Head(list).matchedTrack # Absent
       THEN tracksOfReversed(Tail(list)) \o << Head(list).matchedTrack[1] >>
       ELSE tracksOfReversed(Tail(list))

\* matchedTracks.filter((match) => match.matchedTrack !== null)
\*              .map((match) => match.matchedTrack!)
RECURSIVE tracksOf(_)
tracksOf(list) ==
  IF list = << >> THEN << >>
  ELSE IF Head(list).matchedTrack # Absent
       THEN << Head(list).matchedTrack[1] >> \o tracksOf(Tail(list))
       ELSE tracksOf(Tail(list))

\* the call ends by throwing; nothing more is sent
Throws ==
  /\ creation' = "thrown"
  /\ UNCHANGED << target, token, matchedTracks, tracksToAdd, offset, requests >>

\* the call sends one more request and awaits its response
Sends(awaited, request, k) ==
  /\ creation' = awaited
  /\ requests' = Append(requests, request)
  /\ offset' = k
  /\ UNCHANGED << target, token, matchedTracks, tracksToAdd >>

\* the call returns the playlist it created
Returns ==
  /\ creation' = "returned"
  /\ UNCHANGED << target, token, matchedTracks, tracksToAdd, offset, requests >>

\* createPlaylist, lines 326-329: no token is stored for the platform
NotAuthenticated ==
  /\ creation = "createPlaylist"
  /\ token = Absent
  /\ Throws
  /\ UNCHANGED besidesCreating

\* createPlaylist, lines 331-338: no track could be matched
NothingMatched ==
  /\ creation = "createPlaylist"
  /\ token # Absent
  /\ tracksOf(matchedTracks) = << >>
  /\ Throws
  /\ UNCHANGED besidesCreating

\* createPlaylist, lines 344-346, and createSpotifyPlaylist, lines 119-125:
\* the tracks go to createSpotifyPlaylist, which asks for the user first
HandToSpotify ==
  /\ creation = "createPlaylist"
  /\ token # Absent
  /\ tracksOf(matchedTracks) # << >>
  /\ target = "spotify"
  /\ tracksToAdd' = Present(tracksOf(matchedTracks))
  /\ creation' = "me"
  /\ requests' = Append(requests, Request("me", << >>))
  /\ UNCHANGED << target, token, matchedTracks, offset >>
  /\ UNCHANGED besidesCreating

\* createPlaylist, lines 347-361, and createYouTubePlaylist, lines 202-221:
\* the tracks go to createYouTubePlaylist, which creates the playlist first
HandToYouTube ==
  /\ creation = "createPlaylist"
  /\ token # Absent
  /\ tracksOf(matchedTracks) # << >>
  /\ target = "youtube"
  /\ tracksToAdd' = Present(tracksOf(matchedTracks))
  /\ creation' = "youtube playlists"
  /\ requests' = Append(requests, Request("youtube playlists", << >>))
  /\ UNCHANGED << target, token, matchedTracks, offset >>
  /\ UNCHANGED besidesCreating

\* createPlaylist, lines 362-365, createApplePlaylist and
\* createAmazonPlaylist: the function of the platform takes the tracks and
\* throws
HandToUnsupported ==
  /\ creation = "createPlaylist"
  /\ token # Absent
  /\ tracksOf(matchedTracks) # << >>
  /\ target \in { "apple", "amazon" }
  /\ tracksToAdd' = Present(tracksOf(matchedTracks))
  /\ creation' = "thrown"
  /\ UNCHANGED << target, token, matchedTracks, offset, requests >>
  /\ UNCHANGED besidesCreating

\* createSpotifyPlaylist, lines 127-129, 150-152 and 174-178: a response
\* that is not ok, or a request that fails, ends the call
SpotifyFails ==
  /\ creation \in { "me", "playlists", "tracks" }
  /\ Throws
  /\ UNCHANGED besidesCreating

\* createSpotifyPlaylist, lines 131-148: the user is known, the playlist is
\* asked for
UserOk ==
  /\ creation = "me"
  /\ Sends("playlists", Request("playlists", << >>), offset)
  /\ UNCHANGED besidesCreating

\* createSpotifyPlaylist, lines 154-172: the playlist exists; the first chunk
\* goes out, if there is a track at all
CreateOk ==
  /\ creation = "playlists"
  /\ IF trackUris(tracksToAdd[1]) # << >>
     THEN Sends("tracks", Request("tracks", chunkOf(trackUris(tracksToAdd[1]), 0)), 0)
     ELSE Returns
  /\ UNCHANGED besidesCreating

\* createSpotifyPlaylist, lines 162-180: a chunk was added; the next one goes
\* out, if there is one
AddOk ==
  /\ creation = "tracks"
  /\ IF offset + ChunkSize < Len(trackUris(tracksToAdd[1]))
     THEN Sends("tracks",
                Request("tracks", chunkOf(trackUris(tracksToAdd[1]), offset + ChunkSize)),
                offset + ChunkSize)
     ELSE Returns
  /\ UNCHANGED besidesCreating

\* createYouTubePlaylist, lines 223-227: the playlist could not be created
YouTubeFails ==
  /\ creation = "youtube playlists"
  /\ Throws
  /\ UNCHANGED besidesCreating

\* the request that adds tracks[i] to the YouTube playlist (lines 238-257)
playlistItem(k) == Request("playlistItems", << tracksToAdd[1][k + 1].id >>)

\* createYouTubePlaylist, lines 229-257: the playlist exists; the first track
\* is added, if there is one
YouTubeCreateOk ==
  /\ creation = "youtube playlists"
  /\ IF 0 < Len(tracksToAdd[1])
     THEN Sends("playlistItems", playlistItem(0), 0)
     ELSE Returns
  /\ UNCHANGED besidesCreating

\* createYouTubePlaylist, lines 236-279: whether or not the track was added,
\* the loop goes on to the next one
ItemAnswered ==
  /\ creation = "playlistItems"
  /\ IF offset + 1 < Len(tracksToAdd[1])
     THEN Sends("playlistItems", playlistItem(offset + 1), offset + 1)
     ELSE Returns
  /\ UNCHANGED besidesCreating

\* results of matching: two with a track, one without
MatchedExact == matchTrack(Normal, << Exact >>)

MatchedLive == matchTrack(Normal, << LiveCut >>)

Unmatched == NoMatch(Unsearchable)

MatchResults == { MatchedExact, MatchedLive, Unmatched }

ResultLists == UNION { [ 1 .. n -> MatchResults ] : n \in 0 .. MaxResults }

Platforms == { "youtube", "spotify", "apple", "amazon" }

\* createPlaylist is called
InitCreate ==
  /\ target \in Platforms
  /\ token \in { Absent, Present("token") }
  /\ matchedTracks \in ResultLists
  /\ tracksToAdd = Absent
  /\ offset = 0
  /\ requests = << >>
  /\ creation = "createPlaylist"
  /\ NothingBesidesCreating

NextCreate ==
  \/ NotAuthenticated
  \/ NothingMatched
  \/ HandToSpotify
  \/ HandToYouTube
  \/ HandToUnsupported
  \/ SpotifyFails
  \/ UserOk
  \/ CreateOk
  \/ AddOk
  \/ YouTubeFails
  \/ YouTubeCreateOk
  \/ ItemAnswered

SpecCreate == InitCreate /\ [][NextCreate]_vars

\* createSpotifyPlaylist is called with some number of tracks and no user
InitSpotify ==
  /\ target = "spotify"
  /\ token = Present("token")
  /\ matchedTracks = << >>
  /\ \E n \in 0 .. MaxUris : tracksToAdd = Present([ k \in 1 .. n |-> [ id |-> k ] ])
  /\ offset = 0
  /\ requests = << Request("me", << >>) >>
  /\ creation = "me"
  /\ NothingBesidesCreating

NextSpotify ==
  \/ SpotifyFails
  \/ UserOk
  \/ CreateOk
  \/ AddOk

SpecSpotify == InitSpotify /\ [][NextSpotify]_vars

\* the bodies of the add requests sent so far, one after the other
RECURSIVE sentUris(_)
sentUris(list) ==
  IF list = << >> THEN << >>
  ELSE (IF Head(list).url \in { "tracks", "playlistItems" } THEN Head(list).body ELSE << >>)
       \o sentUris(Tail(list))

AddRequests == { k \in 1 .. Len(requests) : requests[k].url = "tracks" }

\* C24: createSpotifyPlaylist sends the tracks in consecutive add requests
\* of at most 100 URIs each; what has been sent is always the beginning of
\* the list of URIs, in playlist order, and when every request succeeded it
\* is the whole list, each track once; after an add request that fails the
\* call throws and no further chunk is sent.
C24_ChunksOfAtMostHundred ==
  /\ [](/\ \A k \in AddRequests : Len(requests[k].body) \in 1 .. ChunkSize
        /\ \A k \in AddRequests : k > 3 => Len(requests[k - 1].body) = ChunkSize
        /\ LET uris == trackUris(tracksToAdd[1])
               sent == sentUris(requests) IN
             /\ Len(sent) <= Len(uris)
             /\ sent = SubSeq(uris, 1, Len(sent))
             /\ creation = "returned" => sent = uris)
  /\ [][creation = "tracks" /\ creation' = "thrown" => requests' = requests]_vars
  /\ [][creation = "thrown" => requests' = requests]_vars

C24_Witness ==
  /\ creation = "returned"
  /\ Len(tracksToAdd[1]) = 2 * ChunkSize + 1
  /\ Len(requests) = 5
  /\ Len(requests[5].body) = 1
  /\ requests[5].body[1] = << "spotify:track:", 2 * ChunkSize + 1 >>

\* an add request failed after a chunk had been sent
C24_FailedAfterFirstChunk ==
  /\ creation = "thrown"
  /\ Len(tracksToAdd[1]) = 2 * ChunkSize
  /\ Len(requests) = 3

\* C23: createPlaylist hands to the function of the platform exactly the
\* matchedTrack of every MatchResult that has one, in the order of the
\* results, and the requests to Spotify and to YouTube carry exactly these
\* tracks; without a token, or without any matched track, it throws and
\* nothing is handed over or sent.
C23_HandsMatchedTracksInOrder ==
  LET withTrack == SelectSeq(matchedTracks, LAMBDA result : result.matchedTrack # Absent) IN
    /\ tracksToAdd # Absent =>
         /\ token # Absent
         /\ Len(tracksToAdd[1]) = Len(withTrack)
         /\ Len(withTrack) > 0
         /\ \A k \in 1 .. Len(withTrack) : << tracksToAdd[1][k] >> = withTrack[k].matchedTrack
    /\ creation = "returned" =>
         /\ tracksToAdd # Absent
         /\ Len(sentUris(requests)) = Len(withTrack)
         /\ \A k \in 1 .. Len(withTrack) :
              sentUris(requests)[k] =
                IF target = "spotify"
                THEN << "spotify:track:", withTrack[k].matchedTrack[1].id >>
                ELSE withTrack[k].matchedTrack[1].id
    /\ (token = Absent \/ withTrack = << >>) =>
         /\ creation \in { "createPlaylist", "thrown" }
         /\ tracksToAdd = Absent
         /\ requests = << >>

C23_Witness ==
  /\ creation = "returned"
  /\ target = "spotify"
  /\ matchedTracks = << MatchedLive, Unmatched, MatchedExact >>
  /\ tracksToAdd = Present(<< LiveCut, Exact >>)

\* without a matched track the call has thrown
C23_ThrownWithoutMatch ==
  /\ creation = "thrown"
  /\ token # Absent
  /\ matchedTracks = << Unmatched, Unmatched >>


\* ------------------------------------------------------------------------
\* The stored tokens (token-storage.ts)
\* ------------------------------------------------------------------------

\* a token lives for an hour when it does not say how long (line 27)
Hour == 3600000

\* how often a millisecond passes within an hour, and how many hours pass
MaxTicks == 2

MaxHours == 1

TOKEN_PREFIX == "playlist_tracker_token_"

TOKEN_EXPIRY_PREFIX == "playlist_tracker_expiry_"

\* `${TOKEN_PREFIX}${platform}` and `${TOKEN_EXPIRY_PREFIX}${platform}`
Key(prefix, platform) == << prefix, platform >>

Keys == { TOKEN_PREFIX, TOKEN_EXPIRY_PREFIX } \X Platforms

DigitChars == << "0", "1", "2", "3", "4", "5", "6", "7", "8", "9" >>

\* expiresAt.toString(), for a whole number that is not negative
RECURSIVE numberToString(_)
numberToString(n) ==
  IF n < 10 THEN << DigitChars[n + 1] >>
  ELSE Append(numberToString(n \div 10), DigitChars[(n % 10) + 1])

\* the number the leading digits of a string stand for, after those of `read`
RECURSIVE parseDigits(_, _)
parseDigits(str, read) ==
  IF str = << >> \/ Head(str) \notin Digits THEN read
  ELSE parseDigits(Tail(str),
                   10 * read + (CHOOSE d \in 0 .. 9 : DigitChars[d + 1] = Head(str)))

\* parseInt(expiryStr, 10): NaN (Absent) when the string starts with no digit
parseInt(str) ==
  IF str = << >> \/ Head(str) \notin Digits THEN Absent
  ELSE Present(parseDigits(str, 0))

\* JSON.stringify(tokenData) and JSON.parse(tokenDataStr)
stringify(value) == << "JSON", value >>

parse(str) == str[2]

getItem(entries, key) == entries[key]

setItem(entries, key, value) == [ entries EXCEPT ![key] = Present(value) ]

removeItem(entries, key) == [ entries EXCEPT ![key] = Absent ]

\* tokenData.expiresAt || Date.now() + 3600000 (line 27)
expiryOf(tokenData, time) ==
  IF tokenData.expiresAt # Absent /\ tokenData.expiresAt[1] # 0
  THEN tokenData.expiresAt[1]
  ELSE time + Hour

\* storeToken (lines 18-34); `thrown` says which call of setItem throws, if
\* one does: the catch swallows it
storeToken(entries, platform, tokenData, time, thrown) ==
  IF thrown = 1 THEN entries
  ELSE LET withToken == setItem(entries, Key(TOKEN_PREFIX, platform), stringify(tokenData)) IN
         IF thrown = 2 THEN withToken
         ELSE setItem(withToken, Key(TOKEN_EXPIRY_PREFIX, platform),
                      numberToString(expiryOf(tokenData, time)))

\* removeToken (lines 79-91)
removeToken(entries, platform) ==
  removeItem(removeItem(entries, Key(TOKEN_PREFIX, platform)),
             Key(TOKEN_EXPIRY_PREFIX, platform))

\* expiresAt && Date.now() > expiresAt, with an hour of grace
isExpiredAfterGrace(expiresAt, time) ==
  /\ expiresAt # Absent
  /\ expiresAt[1] # 0
  /\ time > expiresAt[1] + Hour

\* expiresAt && Date.now() > expiresAt (line 55); expiresAt is null, NaN
\* (both Absent) or a number
isExpired(expiresAt, time) ==
  /\ expiresAt # Absent
  /\ expiresAt[1] # 0
  /\ time > expiresAt[1]

\* getToken (lines 39-66): what it returns and what it leaves in localStorage
getToken(entries, platform, time) ==
  LET tokenDataStr == getItem(entries, Key(TOKEN_PREFIX, platform))
      expiryStr == getItem(entries, Key(TOKEN_EXPIRY_PREFIX, platform)) IN
    IF tokenDataStr = Absent
    THEN [ result |-> Absent, entries |-> entries ]
    ELSE IF isExpired(IF expiryStr # Absent THEN parseInt(expiryStr[1]) ELSE Absent, time)
         THEN [ result |-> Absent, entries |-> removeToken(entries, platform) ]
         ELSE [ result |-> Present(parse(tokenDataStr[1])), entries |-> entries ]

\* isAuthenticated (lines 71-74)
isAuthenticated(entries, platform, time) ==
  [ result |-> Present(getToken(entries, platform, time).result # Absent),
    entries |-> getToken(entries, platform, time).entries ]

\* clearAllTokens (lines 142-145)
clearAllTokens(entries) ==
  removeToken(removeToken(removeToken(removeToken(entries, "youtube"), "spotify"), "apple"),
              "amazon")

\* a call of the module: what it leaves in localStorage and what it returns
Call(name, platform, entries, result) ==
  /\ localStorage' = entries
  /\ called' = Present([ fn |-> name, platform |-> platform, result |-> result ])
  /\ UNCHANGED now

\* the platforms the user connects, and the tokens they give: one that does
\* not say when it expires, one that says 0, one that expires at time 2
Connected == { "spotify", "youtube" }

TokenDatas ==
  { [ accessToken |-> "token", expiresAt |-> e, platform |-> p ] :
      e \in { Absent, Present(0), Present(2) },
      p \in Connected }

InitStorage ==
  /\ localStorage = [ key \in Keys |-> Absent ]
  /\ now = 1
  /\ called = Absent
  /\ NothingBesidesStorage

StoreToken ==
  /\ \E tokenData \in TokenDatas :
       Call("storeToken", tokenData.platform,
            storeToken(localStorage, tokenData.platform, tokenData, now, 0), Absent)
  /\ UNCHANGED besidesStorage

\* localStorage.setItem throws: the token is not stored, or it is stored
\* without its expiry
StoreTokenThrows ==
  /\ \E tokenData \in TokenDatas, thrown \in { 1, 2 } :
       Call("storeToken", tokenData.platform,
            storeToken(localStorage, tokenData.platform, tokenData, now, thrown), Absent)
  /\ UNCHANGED besidesStorage

GetToken ==
  /\ \E platform \in Platforms :
       Call("getToken", platform,
            getToken(localStorage, platform, now).entries,
            getToken(localStorage, platform, now).result)
  /\ UNCHANGED besidesStorage

IsAuthenticated ==
  /\ \E platform \in Platforms :
       Call("isAuthenticated", platform,
            isAuthenticated(localStorage, platform, now).entries,
            isAuthenticated(localStorage, platform, now).result)
  /\ UNCHANGED besidesStorage

RemoveToken ==
  /\ \E platform \in Platforms :
       Call("removeToken", platform, removeToken(localStorage, platform), Absent)
  /\ UNCHANGED besidesStorage

ClearAllTokens ==
  /\ Call("clearAllTokens", "", clearAllTokens(localStorage), Absent)
  /\ UNCHANGED besidesStorage

\* a millisecond passes
Tick ==
  /\ (now - 1) % Hour < MaxTicks
  /\ now' = now + 1
  /\ UNCHANGED << localStorage, called >>
  /\ UNCHANGED besidesStorage

\* an hour passes
HourPasses ==
  /\ (now - 1) \div Hour < MaxHours
  /\ now' = now + Hour
  /\ UNCHANGED << localStorage, called >>
  /\ UNCHANGED besidesStorage

NextStorage ==
  \/ StoreToken
  \/ StoreTokenThrows
  \/ GetToken
  \/ IsAuthenticated
  \/ RemoveToken
  \/ ClearAllTokens
  \/ Tick
  \/ HourPasses

SpecStorage == InitStorage /\ [][NextStorage]_vars

\* the expiry time stored for a platform, if there is one
StoredExpiry(platform) ==
  IF localStorage[Key(TOKEN_EXPIRY_PREFIX, platform)] = Absent THEN Absent
  ELSE parseInt(localStorage[Key(TOKEN_EXPIRY_PREFIX, platform)][1])

HasToken(platform) == localStorage[Key(TOKEN_PREFIX, platform)] # Absent

\* a token is stored for the platform with an expiry time that has passed
Stale(platform) ==
  /\ HasToken(platform)
  /\ StoredExpiry(platform) # Absent
  /\ StoredExpiry(platform)[1] < now

\* the step is a call of fn for the platform
IsCall(name, platform) ==
  /\ called' # Absent
  /\ called'[1].fn = name
  /\ called'[1].platform = platform
  /\ now' = now

\* C25: whatever was stored, read and removed before and however much time
\* passed, getToken(platform) returns no token whose stored expiry time is
\* earlier than the current time: when it finds one it returns null and
\* leaves neither the token entry nor the expiry entry; and
\* isAuthenticated(platform) returns true exactly when getToken(platform)
\* returns a token.
C25_NoExpiredToken ==
  /\ [](called # Absent /\ called[1].fn = "getToken" /\ called[1].result # Absent
          => HasToken(called[1].platform))
  /\ [][\A platform \in Platforms :
          /\ IsCall("getToken", platform) /\ called'[1].result # Absent
               => /\ ~Stale(platform)
                  /\ HasToken(platform)
                  /\ called'[1].result[1] = parse(localStorage[Key(TOKEN_PREFIX, platform)][1])
                  /\ localStorage' = localStorage
          /\ IsCall("getToken", platform) /\ Stale(platform)
               => /\ called'[1].result = Absent
                  /\ localStorage'[Key(TOKEN_PREFIX, platform)] = Absent
                  /\ localStorage'[Key(TOKEN_EXPIRY_PREFIX, platform)] = Absent
          /\ IsCall("isAuthenticated", platform)
               => /\ called'[1].result = Present(HasToken(platform) /\ ~Stale(platform))
                  /\ called'[1].result = Present(getToken(localStorage', platform, now').result # Absent)
                  /\ Stale(platform) => ~HasToken(platform)']_vars

\* getToken found the token of an hour ago and removed it with its expiry
C25_Witness ==
  /\ called # Absent
  /\ called[1].fn = "getToken"
  /\ called[1].platform = "spotify"
  /\ called[1].result = Absent
  /\ now = Hour + 2
  /\ localStorage[Key(TOKEN_PREFIX, "spotify")] = Absent
  /\ localStorage[Key(TOKEN_EXPIRY_PREFIX, "spotify")] = Absent
  /\ HasToken("youtube")
  /\ StoredExpiry("youtube") = Present(2 * Hour + 1)

\* a token stored without an expiry entry is returned whatever the time
C25_TokenWithoutExpiry ==
  /\ called # Absent
  /\ called[1].fn = "getToken"
  /\ called[1].result # Absent
  /\ StoredExpiry(called[1].platform) = Absent
  /\ now > Hour


\* ------------------------------------------------------------------------
\* The transfer page: handleTransfer and the confirmation
\* (page-content.tsx, lines 254-512, 861-926 and 1040-1092)
\* ------------------------------------------------------------------------

MaxTransfers == 2

\* what matchTracks can return for the playlists of the page
MatchLists == { << MatchedExact >>, << Unmatched >>, << MatchedLive, Unmatched >> }

PagePlaylists == { "first", "second" }

\* const currentMatches = matchResults || matches (line 417); matchResults is
\* the state of the render the handler was called in
currentMatches(rendered, matches) ==
  IF rendered # Absent THEN rendered[1] ELSE matches

\* the submit button is enabled (line 934): handleTransfer is called and an
\* early return ends it (lines 260-304)
SubmitRejected ==
  /\ ~isProcessing
  /\ \E reason \in { "platform", "url", "auth" } : error' = reason
  /\ UNCHANGED << matchResults, userSelections, showConfirmationModal,
                  pendingPlaylistCreation, isProcessing, transfer, runs >>
  /\ UNCHANGED besidesTransferPage

\* handleTransfer, lines 254-334: the checks pass, the state is reset but for
\* matchResults, and the playlist is fetched, or the demo playlist made
Submit ==
  /\ ~isProcessing
  /\ runs < MaxTransfers
  /\ runs' = runs + 1
  /\ isProcessing' = TRUE
  /\ error' = ""
  /\ userSelections' = << >>
  /\ \E playlist \in PagePlaylists :
       transfer' = Present([ matchResults |-> matchResults, playlist |-> playlist,
                             matches |-> Absent, step |-> "matching" ])
  /\ UNCHANGED << matchResults, showConfirmationModal, pendingPlaylistCreation >>
  /\ UNCHANGED besidesTransferPage

\* handleTransfer, lines 340-343 and 421-426: no token for the destination,
\* or matchTracks throws
TransferFails ==
  /\ transfer # Absent
  /\ transfer[1].step = "matching"
  /\ transfer' = Present([ transfer[1] EXCEPT !.step = "failed" ])
  /\ isProcessing' = FALSE
  /\ error' = "transfer"
  /\ UNCHANGED << matchResults, userSelections, showConfirmationModal,
                  pendingPlaylistCreation, runs >>
  /\ UNCHANGED besidesTransferPage

\* handleTransfer, lines 345-419: matchTracks returns and the confirmation
\* is opened
MatchingDone ==
  /\ transfer # Absent
  /\ transfer[1].step = "matching"
  /\ \E matches \in MatchLists :
       /\ transfer' = Present([ transfer[1] EXCEPT !.matches = Present(matches),
                                                   !.step = "confirming" ])
       /\ matchResults' = Present(matches)
       /\ pendingPlaylistCreation' =
            Present([ matches |-> currentMatches(transfer[1].matchResults, matches),
                      playlist |-> transfer[1].playlist ])
  /\ isProcessing' = FALSE
  /\ showConfirmationModal' = TRUE
  /\ UNCHANGED << userSelections, error, runs >>
  /\ UNCHANGED besidesTransferPage

\* the buttons that close the confirmation (lines 1009-1013 and 1067-1071)
CancelConfirmation ==
  /\ showConfirmationModal
  /\ pendingPlaylistCreation # Absent
  /\ showConfirmationModal' = FALSE
  /\ pendingPlaylistCreation' = Absent
  /\ isProcessing' = FALSE
  /\ UNCHANGED << matchResults, userSelections, error, transfer, runs >>
  /\ UNCHANGED besidesTransferPage

\* the button that creates the playlist (lines 1076-1088) and
\* proceedWithPlaylistCreation up to createPlaylist (lines 439-486)
ConfirmCreation ==
  /\ showConfirmationModal
  /\ pendingPlaylistCreation # Absent
  /\ matchResults # Absent
  /\ isProcessing' = TRUE
  /\ showConfirmationModal' = FALSE
  /\ pendingPlaylistCreation' = Absent
  /\ transfer' = Present([ transfer[1] EXCEPT !.step = "creating" ])
  /\ UNCHANGED << matchResults, userSelections, error, runs >>
  /\ UNCHANGED besidesTransferPage

\* proceedWithPlaylistCreation, lines 480-511: no track was matched, or
\* createPlaylist returns or throws
CreationEnds ==
  /\ transfer # Absent
  /\ transfer[1].step = "creating"
  /\ \E outcome \in { "", "creation" } :
       /\ tracksOf(matchResults[1]) = << >> => outcome = "creation"
       /\ error' = outcome
  /\ isProcessing' = FALSE
  /\ transfer' = Present([ transfer[1] EXCEPT !.step = "created" ])
  /\ UNCHANGED << matchResults, userSelections, showConfirmationModal,
                  pendingPlaylistCreation, runs >>
  /\ UNCHANGED besidesTransferPage

\* onTrackReplaced (lines 896-926): the user puts another track in the place
\* of a result shown under the form (line 861)
TrackReplaced ==
  /\ matchResults # Absent
  /\ matchResults[1] # << >>
  /\ ~showConfirmationModal
  /\ \E k \in 1 .. Len(matchResults[1]), newTrack \in { LiveCut } :
       /\ LET originalIndex ==
                CHOOSE j \in 1 .. k :
                  /\ matchResults[1][j].sourceTrack.id = matchResults[1][k].sourceTrack.id
                  /\ \A before \in 1 .. j - 1 :
                       matchResults[1][before].sourceTrack.id # matchResults[1][k].sourceTrack.id
          IN userSelections' =
               [ j \in (DOMAIN userSelections) \cup { originalIndex - 1 } |->
                   IF j = originalIndex - 1 THEN newTrack ELSE userSelections[j] ]
       /\ matchResults' =
            Present([ j \in 1 .. Len(matchResults[1]) |->
                        IF matchResults[1][j].sourceTrack.id = matchResults[1][k].sourceTrack.id
                        THEN [ matchResults[1][j] EXCEPT !.matchedTrack = Present(newTrack),
                                                         !.confidence = "high",
                                                         !.matchReason = "User selected" ]
                        ELSE matchResults[1][j] ])
  /\ UNCHANGED << showConfirmationModal, pendingPlaylistCreation, isProcessing,
                  error, transfer, runs >>
  /\ UNCHANGED besidesTransferPage

InitPage == PageAtRest /\ NothingBesidesTransferPage

NextPage ==
  \/ SubmitRejected
  \/ Submit
  \/ TransferFails
  \/ MatchingDone
  \/ CancelConfirmation
  \/ ConfirmCreation
  \/ CreationEnds
  \/ TrackReplaced

SpecPage == InitPage /\ [][NextPage]_vars

\* handleTransfer has finished matching and the confirmation is open
ConfirmationOpen ==
  /\ showConfirmationModal
  /\ pendingPlaylistCreation # Absent
  /\ transfer # Absent
  /\ transfer[1].step = "confirming"

\* C30: whenever handleTransfer has finished matching and has opened the
\* confirmation, pendingPlaylistCreation.matches is the result list of the
\* matching run that just completed.
C30_PendingMatchesOfThisRun ==
  ConfirmationOpen => pendingPlaylistCreation[1].matches = transfer[1].matches[1]

\* what holds instead: the pending matches are the matchResults of the
\* render in which the transfer was started, when there were any
C30_PendingMatchesOfTheRender ==
  ConfirmationOpen =>
    /\ pendingPlaylistCreation[1].playlist = transfer[1].playlist
    /\ pendingPlaylistCreation[1].matches =
         IF transfer[1].matchResults # Absent
         THEN transfer[1].matchResults[1]
         ELSE transfer[1].matches[1]

\* the first transfer of the page: the pending matches are its own
C30_HoldsForFirstTransfer ==
  ConfirmationOpen /\ runs = 1 => pendingPlaylistCreation[1].matches = transfer[1].matches[1]

====
